---- MODULE Spec2Model ----
(***************************************************************************)
(* Capture session coordinator of the Chrome-Record extension.             *)
(*                                                                         *)
(* Three execution contexts exchange messages:                             *)
(*   - the popup (src/src/popup/hooks/useWaveform.ts, useAudioRecorder),   *)
(*   - the background service worker (src/src/background/background.ts),   *)
(*   - the offscreen document (src/src/offscreen/offscreen.ts).            *)
(* Every handler is split at its await points / callbacks; timers are      *)
(* steps that may be taken at any later moment.                            *)
(***************************************************************************)
EXTENDS Integers, Sequences, FiniteSets, TLC

\* ------------------------------------------------------------------ bounds
MaxSessions == 2
MaxFrags == 1
NumTabs == 2
MaxFaults == 1
MaxLen == 2
MaxRate == 4
MaxTime == 4

\* ------------------------------------------------------- program constants
maxRetries == 3
retryDelay == 800
settleDelay == 300
\* targetPeak = 0.95, as the fraction 19 / 20
TargetPeakNum == 19
TargetPeakDen == 20
sampleBlockSize == 1152

Tabs == 1..NumTabs

\* --------------------------------------------------------------- variables
VARIABLES
  isRecording,               \* background.ts:3
  recordingChunks,           \* background.ts:4
  creatingOffscreenDocument, \* background.ts:289  "null" | "pending" | "rejected"
  storage,                   \* chrome.storage.local (the four recording keys)
  offscreen,                 \* an OFFSCREEN_DOCUMENT context exists
  worker,                    \* offscreen.ts module state and its live stream
  wSer,                      \* fragments awaiting event.data.arrayBuffer()
  wChan,                     \* addRecordingChunk messages in flight (offscreen -> background)
  pChan,                     \* addRecordingChunk messages in flight (popup -> background)
  cap,                       \* the startCapture request being served
  srs,                       \* the startRecordingWithStream request being served
  srsPrev,                   \* a startRecordingWithStream request whose popup was closed
  stop,                      \* the stopCapture request being served
  gs,                        \* the getRecordingState request being served
  popup,                     \* useAudioRecorder state of the popup
  nextSess,                  \* number of startRecording() calls issued so far
  tc,                        \* the transcoder call: its input, arguments and result
  hist                       \* observation log (never read by the program)

vars == << isRecording, recordingChunks, creatingOffscreenDocument, storage,
           offscreen, worker, wSer, wChan, pChan, cap, srs, srsPrev, stop, gs,
           popup, nextSess, tc, hist >>

bgVars == << isRecording, recordingChunks, creatingOffscreenDocument >>
workerVars == << offscreen, worker, wSer >>
opVars == << cap, srs, stop, gs >>
otherVars == << nextSess, srsPrev, tc >>

\* ------------------------------------------------------------ value shapes
NoToken == [id |-> 0, tab |-> 0]
NoStamp == [who |-> "none", sess |-> 0]

\* chrome.storage.local with the four keys the recording code uses
EmptyStorage ==
  [ recordingStreamId  |-> NoToken,
    recordingTabId     |-> 0,
    recordingStartTime |-> NoStamp,
    hasChunks          |-> FALSE,
    recordingChunks    |-> << >> ]

\* chrome.storage.local.remove([...]) for a set of keys
StorageRemove(st, keys) ==
  [ recordingStreamId  |-> IF "recordingStreamId" \in keys THEN NoToken ELSE st.recordingStreamId,
    recordingTabId     |-> IF "recordingTabId" \in keys THEN 0 ELSE st.recordingTabId,
    recordingStartTime |-> IF "recordingStartTime" \in keys THEN NoStamp ELSE st.recordingStartTime,
    hasChunks          |-> IF "recordingChunks" \in keys THEN FALSE ELSE st.hasChunks,
    recordingChunks    |-> IF "recordingChunks" \in keys THEN << >> ELSE st.recordingChunks ]

AllRecordingKeys == {"recordingStreamId", "recordingTabId", "recordingStartTime", "recordingChunks"}
MetaKeys == {"recordingStreamId", "recordingTabId", "recordingStartTime"}

\* offscreen.ts module state: mediaRecorder (state), the captured stream
NoWorker == [ state |-> "null", sess |-> 0, tab |-> 0, live |-> FALSE, n |-> 0,
              recordedChunks |-> 0, flush |-> FALSE ]

Frag(src, sess, k, final) == [src |-> src, sess |-> sess, k |-> k, final |-> final]

Range(s) == { s[i] : i \in DOMAIN s }

\* observed phase of the session, tagged with the number of starts issued so far
Phase(name) == [name |-> name, n |-> nextSess]
NoPhase == [name |-> "none", n |-> 0]

\* request records
CapIdle == [ pc |-> "idle", sess |-> 0, tab |-> 0, retryCount |-> 0, delay |-> 0, calls |-> 0,
             outcomes |-> << >>, issued |-> NoToken, clobbered |-> FALSE,
             reply |-> "none", streamId |-> NoToken, error |-> "" ]
SrsIdle == [ pc |-> "idle", streamId |-> NoToken, sess |-> 0, reply |-> "none", error |-> "" ]
StopIdle == [ pc |-> "idle", capturing |-> FALSE, snapshot |-> << >>, reply |-> "none",
              wrote |-> FALSE ]
GsIdle == [ pc |-> "idle", hasOffscreen |-> FALSE, flag |-> FALSE, hasStart |-> FALSE,
            reply |-> "none", capturing |-> FALSE, hasRecording |-> FALSE,
            phase |-> NoPhase ]

PopupClosed == [ open |-> FALSE, pc |-> "idle", chk |-> "idle", stp |-> "idle",
                 isRecording |-> FALSE, sess |-> 0, streamTab |-> 0,
                 recorder |-> "null", n |-> 0 ]

NoCall == [ made |-> FALSE, whileActive |-> FALSE, offscreen |-> FALSE, live |-> FALSE,
            buffered |-> FALSE ]

HistInit == [ emitted |-> {}, call |-> NoCall, crashBuf |-> << >>, evictBuf |-> << >>,
              faults |-> 0, whileActive |-> FALSE, phase |-> NoPhase ]

\* the transcoder call: no call made, no payload loaded
NoBuffer == [sampleRate |-> 0, den |-> 1, channels |-> << >>]
NoArg == [rate |-> 0, channels |-> 0, startTime |-> 0, endTime |-> 0, bitDepth |-> 0,
          format |-> "", normalize |-> FALSE, oggSupported |-> TRUE]
NoResult == [kind |-> "none"]
TcIdle == [op |-> "idle", in |-> NoBuffer, arg |-> NoArg, out |-> NoResult,
           reads |-> {}, out2 |-> NoResult, stages |-> << >>]

\* -------------------------------------------------------------------- Init
Init ==
  /\ isRecording = FALSE
  /\ recordingChunks = << >>
  /\ creatingOffscreenDocument = "null"
  /\ storage = EmptyStorage
  /\ offscreen = FALSE
  /\ worker = NoWorker
  /\ wSer = {}
  /\ wChan = << >>
  /\ pChan = << >>
  /\ cap = CapIdle
  /\ srs = SrsIdle
  /\ srsPrev = SrsIdle
  /\ stop = StopIdle
  /\ gs = GsIdle
  /\ popup = PopupClosed
  /\ nextSess = 0
  /\ tc = TcIdle
  /\ hist = HistInit

\* ======================================================================
\* Platform capture primitive (chrome.tabCapture.getMediaStreamId)
\* ======================================================================
\* chrome.runtime.lastError.message values of the platform
ErrActiveStream == "Cannot capture a tab with an active stream."
ErrNotInvoked == "Extension has not been invoked for the current page (see activeTab permission). Chrome pages cannot be captured."
ErrNoMessage == ""

\* errorMsg.includes('active stream') / errorMsg.includes('Cannot capture')
IncludesActiveStream(msg) == msg \in {ErrActiveStream}
IncludesCannotCapture(msg) == msg \in {ErrActiveStream}

\* variant: every error that carries a message is taken for the transient one
IsTransientError_AnyMessage(msg) ==
  msg # ErrNoMessage

\* background.ts:227 / 240 : errorMsg && (includes('active stream') || includes('Cannot capture'))
IsTransientError(msg) ==
  /\ msg # ErrNoMessage
  /\ (IncludesActiveStream(msg) \/ IncludesCannotCapture(msg))

\* variant: the comparison with maxRetries is inverted
ShouldRetry_Inverted(msg, retryCount) ==
  IsTransientError(msg) /\ retryCount > maxRetries

\* background.ts:240 : the retry decision inside retryCapture's callback
ShouldRetry(msg, retryCount) ==
  IsTransientError(msg) /\ retryCount < maxRetries

\* tabs for which some context holds a live captured stream
LiveTabs ==
  (IF worker.live THEN {worker.tab} ELSE {}) \cup
  (IF popup.streamTab # 0 THEN {popup.streamTab} ELSE {})

OkOutcome == [kind |-> "ok", msg |-> ""]
NoIdOutcome == [kind |-> "noid", msg |-> ""]
ErrOutcome(m) == [kind |-> "err", msg |-> m]

\* what getMediaStreamId may answer for a tab: a tab with a live stream is never granted
PlatformOutcomes(tab) ==
  { ErrOutcome(m) : m \in {ErrActiveStream, ErrNotInvoked, ErrNoMessage} }
  \cup (IF tab \in LiveTabs THEN {} ELSE {OkOutcome, NoIdOutcome})

\* the stream token the platform issues for one request
IssuedToken(sess, tab) == [id |-> sess, tab |-> tab]

\* observation of the context in which the platform primitive is called
CallCtx == [ made |-> TRUE, whileActive |-> hist.whileActive,
             offscreen |-> offscreen, live |-> worker.live,
             buffered |-> (Len(recordingChunks) > 0) ]

\* ======================================================================
\* startCapture handler and captureTabAudio (background.ts:19-53, 213-286)
\* ======================================================================
\* the popup's startCapture message is received; captureTabAudio arms its 300 ms timer
RecvStartCapture(sess, tab) ==
  cap' = [CapIdle EXCEPT !.pc = "wait300", !.sess = sess, !.tab = tab,
                         !.delay = settleDelay]

\* background.ts:260 : the delay of the timer armed by retryCapture()
RetryDelayFor_Fixed(retryCount) == retryDelay
RetryDelayFor(retryCount) == retryDelay * (retryCount + 1)

\* reject(...) followed by the handler's .catch => sendResponse({success:false, error})
CapReject(c, m) == [c EXCEPT !.pc = "replied", !.reply = "fail", !.error = m]

\* background.ts:246-251, 266-272 : a rejecting branch returns before storage.set
CapFail_StoreFirst(c, m) ==
  /\ cap' = CapReject(c, m)
  /\ storage' = [storage EXCEPT !.recordingTabId = c.tab]
CapFail(c, m) ==
  /\ cap' = CapReject(c, m)
  /\ UNCHANGED storage

\* chrome.storage.local.set({recordingStreamId, recordingTabId}); resolve()
CapStore(c, tok) ==
  /\ storage' = [storage EXCEPT !.recordingStreamId = tok, !.recordingTabId = c.tab]
  /\ cap' = [c EXCEPT !.pc = "resolved", !.issued = tok]

\* background.ts:220-284 : the timer fires and the first getMediaStreamId call answers
captureTabAudio ==
  /\ cap.pc = "wait300"
  /\ \E o \in PlatformOutcomes(cap.tab) :
       LET c == [cap EXCEPT !.calls = @ + 1, !.outcomes = Append(@, o)] IN
       /\ hist' = [hist EXCEPT !.call = CallCtx]
       /\ IF o.kind = "err"
            THEN IF IsTransientError(o.msg)
                   THEN /\ cap' = [c EXCEPT !.pc = "retryWait", !.retryCount = 0,
                                              !.delay = RetryDelayFor(0)]
                        /\ UNCHANGED storage
                   ELSE CapFail(c, o.msg)
            ELSE IF o.kind = "noid"
                   THEN CapFail(c, "Failed to get media stream ID")
                   ELSE CapStore(c, IssuedToken(cap.sess, cap.tab))
  /\ UNCHANGED << bgVars, workerVars, wChan, pChan, srs, stop, gs, popup, otherVars >>

\* background.ts:233-261 : one retry timer fires and its getMediaStreamId call answers
retryCapture ==
  /\ cap.pc = "retryWait"
  /\ \E o \in PlatformOutcomes(cap.tab) :
       LET c == [cap EXCEPT !.calls = @ + 1, !.outcomes = Append(@, o)] IN
       /\ hist' = [hist EXCEPT !.call = CallCtx]
       /\ IF o.kind = "err"
            THEN IF ShouldRetry(o.msg, cap.retryCount)
                   THEN /\ cap' = [c EXCEPT !.retryCount = @ + 1,
                                              !.delay = RetryDelayFor(cap.retryCount + 1)]
                        /\ UNCHANGED storage
                   ELSE CapFail(c, o.msg)
            ELSE IF o.kind = "noid"
                   THEN CapFail(c, "Failed to get media stream ID")
                   ELSE CapStore(c, IssuedToken(cap.sess, cap.tab))
  /\ UNCHANGED << bgVars, workerVars, wChan, pChan, srs, stop, gs, popup, otherVars >>

\* background.ts:26-30 : .then => storage.get(['recordingStreamId']) => sendResponse
startCaptureReply ==
  /\ cap.pc = "resolved"
  /\ cap' = [cap EXCEPT !.pc = "replied", !.reply = "ok",
                        !.streamId = storage.recordingStreamId]
  /\ UNCHANGED << bgVars, storage, workerVars, wChan, pChan, srs, stop, gs, popup,
                  otherVars, hist >>

\* ======================================================================
\* Legacy in-background recorder fields (background.ts:5-8): declared, only
\* ever assigned null, so they keep their initial value.
\* ======================================================================
mediaRecorder == "null"
currentStream == "null"

\* ======================================================================
\* clearRecording handler (background.ts:141-195)
\* ======================================================================
\* the state the handler leaves behind in the background context
ClearRecordingEffect ==
  /\ isRecording' = IF mediaRecorder # "null" /\ isRecording THEN FALSE ELSE isRecording
  /\ recordingChunks' = << >>
  /\ storage' = StorageRemove(storage, AllRecordingKeys)
  /\ UNCHANGED << creatingOffscreenDocument, workerVars >>

\* ======================================================================
\* addRecordingChunk handler (background.ts:197-209)
\* ======================================================================
\* variant: the handler also rewrites the durable copy on every chunk
AddChunkEffect_WriteThrough(f) ==
  /\ recordingChunks' = Append(recordingChunks, f)
  /\ storage' = [storage EXCEPT !.hasChunks = TRUE,
                                !.recordingChunks = Append(recordingChunks, f)]
  /\ UNCHANGED << isRecording, creatingOffscreenDocument >>

\* what the handler does with message.chunk
AddChunkEffect(f) ==
  /\ recordingChunks' = Append(recordingChunks, f)
  /\ UNCHANGED << isRecording, creatingOffscreenDocument, storage >>

\* a chunk message of the offscreen recorder is delivered
addRecordingChunk ==
  /\ wChan # << >>
  /\ AddChunkEffect(Head(wChan))
  /\ wChan' = Tail(wChan)
  /\ UNCHANGED << workerVars, pChan, opVars, popup, otherVars, hist >>

\* a chunk message of the popup's fallback recorder is delivered
addRecordingChunkPopup ==
  /\ pChan # << >>
  /\ AddChunkEffect(Head(pChan))
  /\ pChan' = Tail(pChan)
  /\ UNCHANGED << workerVars, wChan, opVars, popup, otherVars, hist >>

\* ======================================================================
\* Offscreen recorder (offscreen.ts)
\* ======================================================================
\* offscreen.ts:60-63 : a 100 ms timeslice elapses, ondataavailable runs up to its await
WorkerData ==
  /\ offscreen /\ worker.state = "recording" /\ worker.n < MaxFrags
  /\ LET f == Frag("w", worker.sess, worker.n + 1, FALSE) IN
       /\ worker' = [worker EXCEPT !.n = @ + 1, !.recordedChunks = @ + 1]
       /\ wSer' = wSer \cup {f}
       /\ hist' = [hist EXCEPT !.emitted = @ \cup {f}]
  /\ UNCHANGED << bgVars, storage, offscreen, wChan, pChan, opVars, popup, otherVars >>

\* offscreen.ts:64-68 : one arrayBuffer() promise settles and the chunk is sent
WorkerSend ==
  /\ offscreen
  /\ \E f \in wSer :
       /\ wSer' = wSer \ {f}
       /\ wChan' = Append(wChan, f)
  /\ UNCHANGED << bgVars, storage, offscreen, worker, pChan, opVars, popup, otherVars, hist >>

\* offscreen.ts:72-77 and the recorder's stop task: last dataavailable, then onstop
WorkerFinal ==
  /\ offscreen /\ worker.flush
  /\ \E nonEmpty \in BOOLEAN :
       IF nonEmpty
         THEN LET f == Frag("w", worker.sess, worker.n + 1, TRUE) IN
                /\ worker' = [worker EXCEPT !.flush = FALSE, !.live = FALSE,
                                            !.n = @ + 1, !.recordedChunks = @ + 1]
                /\ wSer' = wSer \cup {f}
                /\ hist' = [hist EXCEPT !.emitted = @ \cup {f}]
         ELSE /\ worker' = [worker EXCEPT !.flush = FALSE, !.live = FALSE]
              /\ UNCHANGED << wSer, hist >>
  /\ UNCHANGED << bgVars, storage, offscreen, wChan, pChan, opVars, popup, otherVars >>

\* offscreen.ts:82-86 : stopRecording()
WorkerStopRecording(w) ==
  IF w.state = "recording" THEN [w EXCEPT !.state = "inactive", !.flush = TRUE] ELSE w

\* ======================================================================
\* setupOffscreenDocument / startRecordingFromStreamId (background.ts:289-338)
\* ======================================================================
SrsFail(r, m) == [r EXCEPT !.pc = "replied", !.reply = "fail", !.error = m]

\* variant: the in-flight creation marker is not consulted
SetupOffscreenDocumentStep_NoMarker(r, rn) ==
  /\ r.pc = "getContexts"
  /\ IF offscreen
       THEN /\ rn = [r EXCEPT !.pc = "wait500"]
            /\ UNCHANGED creatingOffscreenDocument
       ELSE /\ rn = [r EXCEPT !.pc = "creating"]
            /\ creatingOffscreenDocument' = "pending"

\* background.ts:292-312 : getContexts has answered for request r
SetupOffscreenDocumentStep(r, rn) ==
  /\ r.pc = "getContexts"
  /\ IF offscreen
       THEN /\ rn = [r EXCEPT !.pc = "wait500"]
            /\ UNCHANGED creatingOffscreenDocument
       ELSE IF creatingOffscreenDocument = "pending"
         THEN /\ rn = [r EXCEPT !.pc = "awaitCreating"]
              /\ UNCHANGED creatingOffscreenDocument
       ELSE IF creatingOffscreenDocument = "rejected"
         THEN /\ rn = SrsFail(r, "createDocument failed")
              /\ UNCHANGED creatingOffscreenDocument
       ELSE /\ rn = [r EXCEPT !.pc = "creating"]
            /\ creatingOffscreenDocument' = "pending"

\* background.ts:305-311 : chrome.offscreen.createDocument settles for request r
CreateDocumentStep(r, rn) ==
  /\ r.pc = "creating"
  /\ \E ok \in BOOLEAN :
       IF ok /\ ~offscreen
         THEN /\ offscreen' = TRUE
              /\ worker' = NoWorker
              /\ wSer' = {}
              /\ creatingOffscreenDocument' = "null"
              /\ rn = [r EXCEPT !.pc = "wait500"]
              /\ hist' = [hist EXCEPT !.phase = NoPhase]
         ELSE /\ creatingOffscreenDocument' = "rejected"
              /\ rn = SrsFail(r, "createDocument failed")
              /\ UNCHANGED << workerVars, hist >>

\* background.ts:302-303 : the creation another request started has settled
AwaitCreatingStep(r, rn) ==
  /\ r.pc = "awaitCreating" /\ creatingOffscreenDocument # "pending"
  /\ rn = IF creatingOffscreenDocument = "rejected"
            THEN SrsFail(r, "createDocument failed")
            ELSE [r EXCEPT !.pc = "wait500"]

\* variant: startRecording() goes on to getUserMedia whatever the recorder's state
SendStartRecordingStep_NoGuard(r, rn) ==
  /\ r.pc = "wait500"
  /\ IF ~offscreen
       THEN rn = SrsFail(r, "Could not establish connection")
       ELSE rn = [r EXCEPT !.pc = "getUserMedia"]

\* background.ts:319-326 and offscreen.ts:9-23 : START_RECORDING reaches the offscreen listener
SendStartRecordingStep(r, rn) ==
  /\ r.pc = "wait500"
  /\ IF ~offscreen
       THEN rn = SrsFail(r, "Could not establish connection")
       ELSE IF worker.state = "recording"
         THEN rn = SrsFail(r, "Called startRecording while already recording")
         ELSE rn = [r EXCEPT !.pc = "getUserMedia"]

\* offscreen.ts:25-80 : getUserMedia settles; on success the recorder is started
StartRecordingStep(r, rn) ==
  /\ r.pc = "getUserMedia"
  /\ IF ~offscreen
       THEN /\ rn = SrsFail(r, "Could not establish connection")
            /\ UNCHANGED << worker, hist >>
       ELSE \E ok \in BOOLEAN :
         \* a recorder another request started in the meantime keeps the document's slot
         IF ok /\ r.streamId.tab \notin LiveTabs /\ worker.state # "recording"
           THEN /\ worker' = [ state |-> "recording", sess |-> r.sess,
                               tab |-> r.streamId.tab, live |-> TRUE, n |-> 0,
                               recordedChunks |-> 0, flush |-> FALSE ]
                /\ hist' = [hist EXCEPT !.emitted = {}]
                /\ rn = [r EXCEPT !.pc = "started"]
           ELSE /\ rn = SrsFail(r, "getUserMedia failed")
                /\ UNCHANGED << worker, hist >>

\* background.ts:329-332 : the success response of the offscreen recorder arrives
StartRecordingFromStreamIdStep(r, rn) ==
  /\ r.pc = "started"
  /\ isRecording' = TRUE
  /\ storage' = [storage EXCEPT !.recordingStartTime = [who |-> "bg", sess |-> r.sess]]
  /\ rn = [r EXCEPT !.pc = "replied", !.reply = "ok"]
  /\ hist' = [hist EXCEPT !.phase = IF offscreen THEN Phase("capturing") ELSE @]

\* the steps of the request of the open popup
setupOffscreenDocument ==
  /\ SetupOffscreenDocumentStep(srs, srs')
  /\ UNCHANGED << isRecording, recordingChunks, storage, workerVars, wChan, pChan,
                  cap, stop, gs, popup, otherVars, hist >>

createDocument ==
  /\ CreateDocumentStep(srs, srs')
  /\ UNCHANGED << isRecording, recordingChunks, storage, wChan, pChan,
                  cap, stop, gs, popup, otherVars >>

sendStartRecording ==
  /\ SendStartRecordingStep(srs, srs')
  /\ UNCHANGED << bgVars, storage, workerVars, wChan, pChan, cap, stop, gs, popup,
                  otherVars, hist >>

startRecording ==
  /\ StartRecordingStep(srs, srs')
  /\ UNCHANGED << bgVars, storage, offscreen, wSer, wChan, pChan, cap, stop, gs, popup,
                  otherVars >>

startRecordingFromStreamId ==
  /\ StartRecordingFromStreamIdStep(srs, srs')
  /\ UNCHANGED << recordingChunks, creatingOffscreenDocument, workerVars, wChan, pChan,
                  cap, stop, gs, popup, otherVars >>

\* background.ts:302-303 : the request waits for the creation started by another request
awaitCreating ==
  /\ AwaitCreatingStep(srs, srs')
  /\ UNCHANGED << bgVars, storage, workerVars, wChan, pChan, cap, stop, gs, popup,
                  otherVars, hist >>

\* the same steps for the request of a popup that was closed before the response
setupOffscreenDocumentPrev ==
  /\ SetupOffscreenDocumentStep(srsPrev, srsPrev')
  /\ UNCHANGED << isRecording, recordingChunks, storage, workerVars, wChan, pChan,
                  opVars, popup, nextSess, tc, hist >>

createDocumentPrev ==
  /\ CreateDocumentStep(srsPrev, srsPrev')
  /\ UNCHANGED << isRecording, recordingChunks, storage, wChan, pChan,
                  opVars, popup, nextSess, tc >>

awaitCreatingPrev ==
  /\ AwaitCreatingStep(srsPrev, srsPrev')
  /\ UNCHANGED << bgVars, storage, workerVars, wChan, pChan, opVars, popup,
                  nextSess, tc, hist >>

sendStartRecordingPrev ==
  /\ SendStartRecordingStep(srsPrev, srsPrev')
  /\ UNCHANGED << bgVars, storage, workerVars, wChan, pChan, opVars, popup,
                  nextSess, tc, hist >>

startRecordingPrev ==
  /\ StartRecordingStep(srsPrev, srsPrev')
  /\ UNCHANGED << bgVars, storage, offscreen, wSer, wChan, pChan, opVars, popup,
                  nextSess, tc >>

startRecordingFromStreamIdPrev ==
  /\ StartRecordingFromStreamIdStep(srsPrev, srsPrev')
  /\ UNCHANGED << recordingChunks, creatingOffscreenDocument, workerVars, wChan, pChan,
                  opVars, popup, nextSess, tc >>

\* background.ts:59-64 : sendResponse to a popup that no longer exists
dropResponsePrev ==
  /\ srsPrev.pc = "replied"
  /\ srsPrev' = SrsIdle
  /\ UNCHANGED << bgVars, storage, workerVars, wChan, pChan, opVars, popup,
                  nextSess, tc, hist >>

\* ======================================================================
\* handleStopCapture and the stopCapture handler (background.ts:71-85, 340-399)
\* ======================================================================
\* variant: a stop without a Worker flushes the buffer and resets the flag
StopNoSessionEffect_Flush ==
  /\ stop' = [stop EXCEPT !.pc = "replied", !.reply = "null"]
  /\ storage' = [storage EXCEPT !.hasChunks = TRUE, !.recordingChunks = recordingChunks]
  /\ recordingChunks' = << >>
  /\ isRecording' = FALSE
  /\ UNCHANGED creatingOffscreenDocument

\* background.ts:387-398 and 73-79 : no offscreen document and mediaRecorder is
\* null, so handleStopCapture returns null => sendResponse({success:true, audioBlob:null})
StopNoSessionEffect ==
  /\ stop' = [stop EXCEPT !.pc = "replied", !.reply = "null"]
  /\ UNCHANGED << bgVars, storage >>

\* background.ts:342-346, 387-398 : getContexts has answered
handleStopCapture ==
  /\ stop.pc = "getContexts"
  /\ IF offscreen
       THEN /\ stop' = [stop EXCEPT !.pc = "stopSent",
                                    !.capturing = (isRecording /\ worker.state = "recording")]
            /\ UNCHANGED << bgVars, storage >>
       ELSE StopNoSessionEffect
  /\ UNCHANGED << workerVars, wChan, pChan, cap, srs, gs, popup, otherVars, hist >>

\* background.ts:348-353 and offscreen.ts:14-16 : STOP_RECORDING is handled, its response arrives
stopRecording ==
  /\ stop.pc = "stopSent"
  /\ worker' = IF offscreen THEN WorkerStopRecording(worker) ELSE worker
  /\ stop' = [stop EXCEPT !.pc = "settle"]
  /\ UNCHANGED << bgVars, storage, offscreen, wSer, wChan, pChan, cap, srs, gs, popup,
                  otherVars, hist >>

\* the observed phase after a stopCapture reply
StoppedPhase ==
  IF stop.capturing THEN Phase("stopped")
  ELSE IF hist.phase.name = "capturing" THEN Phase("ended")
  ELSE hist.phase

\* variant: the clean-up leaves the durable start time in place
StopCleanup_KeepStartTime(st) ==
  /\ storage' = StorageRemove(st, {"recordingStreamId", "recordingTabId"})
  /\ recordingChunks' = << >>

\* background.ts:374-382 : resolve(null), remove the metadata keys, drop the buffer
StopCleanup(st) ==
  /\ storage' = StorageRemove(st, MetaKeys)
  /\ recordingChunks' = << >>

\* background.ts:353-368 : the 500 ms settling timer fires
stopSettled ==
  /\ stop.pc = "settle"
  /\ isRecording' = FALSE
  /\ offscreen' = FALSE          \* chrome.offscreen.closeDocument()
  /\ worker' = NoWorker
  /\ wSer' = {}
  /\ IF Len(recordingChunks) > 0
       THEN /\ stop' = [stop EXCEPT !.pc = "persist", !.snapshot = recordingChunks]
            /\ UNCHANGED << storage, recordingChunks, hist >>
       ELSE /\ stop' = [stop EXCEPT !.pc = "replied", !.reply = "null"]
            /\ StopCleanup(storage)
            /\ hist' = [hist EXCEPT !.phase = StoppedPhase]
  /\ UNCHANGED << creatingOffscreenDocument, wChan, pChan, cap, srs, gs, popup,
                  otherVars >>

\* background.ts:369-382 : the awaited storage.set({recordingChunks}) settles. When
\* it rejects (the payload exceeds the storage quota) the async callback throws
\* at line 369: resolve(null), the clean-up and the reply are never reached.
stopPersist ==
  /\ stop.pc = "persist"
  /\ \E stored \in BOOLEAN :
       IF stored
         THEN /\ StopCleanup([storage EXCEPT !.hasChunks = TRUE,
                                             !.recordingChunks = stop.snapshot])
              /\ stop' = [stop EXCEPT !.pc = "replied", !.reply = "null", !.wrote = TRUE]
              /\ hist' = [hist EXCEPT !.phase = StoppedPhase]
         ELSE /\ stop' = [stop EXCEPT !.pc = "threw"]
              /\ hist' = [hist EXCEPT !.phase = Phase("ended")]
              /\ UNCHANGED << storage, recordingChunks >>
  /\ UNCHANGED << isRecording, creatingOffscreenDocument, workerVars, wChan, pChan,
                  cap, srs, gs, popup, otherVars >>

\* ======================================================================
\* getRecordingState handler (background.ts:87-110)
\* ======================================================================
\* variant: any single signal suffices
IsRecordingActive_AnySignal(hasOffscreen, flag, hasStartTime) ==
  hasOffscreen \/ flag \/ hasStartTime

\* variant: only the in-memory flag with a start time counts
IsRecordingActive_FlagOnly(hasOffscreen, flag, hasStartTime) ==
  flag /\ hasStartTime

\* background.ts:98
IsRecordingActive(hasOffscreen, flag, hasStartTime) ==
  hasOffscreen \/ (flag /\ hasStartTime)

\* background.ts:91-94 : getContexts has answered
getRecordingStateContexts ==
  /\ gs.pc = "contexts"
  /\ gs' = [gs EXCEPT !.pc = "storage", !.hasOffscreen = offscreen]
  /\ UNCHANGED << bgVars, storage, workerVars, wChan, pChan, cap, srs, stop, popup,
                  otherVars, hist >>

\* background.ts:96-107 : storage.get(['recordingStartTime']) has answered
getRecordingState ==
  /\ gs.pc = "storage"
  /\ LET hasStart == storage.recordingStartTime # NoStamp
         active == IsRecordingActive(gs.hasOffscreen, isRecording, hasStart) IN
       gs' = [gs EXCEPT !.pc = "replied", !.reply = "ok", !.flag = isRecording,
                        !.hasStart = hasStart, !.capturing = active,
                        !.hasRecording = (Len(recordingChunks) > 0 \/ active)]
  /\ UNCHANGED << bgVars, storage, workerVars, wChan, pChan, cap, srs, stop, popup,
                  otherVars, hist >>

\* ======================================================================
\* Popup: useAudioRecorder (src/src/popup/hooks/useWaveform.ts:197-568)
\* ======================================================================
PopupStamp == [who |-> "popup", sess |-> popup.sess]

\* the popup window is opened; useEffect runs checkRecordingState (lines 210-216)
PopupOpen ==
  /\ ~popup.open /\ gs.pc = "idle"
  /\ popup' = [PopupClosed EXCEPT !.open = TRUE, !.chk = "sent"]
  /\ gs' = [GsIdle EXCEPT !.pc = "contexts", !.phase = hist.phase]
  /\ UNCHANGED << bgVars, storage, workerVars, wChan, pChan, cap, srs, stop, otherVars, hist >>

\* the popup window is closed between two of its operations; its context is destroyed
PopupClose ==
  /\ popup.open /\ popup.pc = "idle" /\ popup.chk = "idle" /\ popup.stp = "idle"
  /\ popup' = PopupClosed
  /\ UNCHANGED << bgVars, storage, workerVars, wChan, pChan, opVars, otherVars, hist >>

\* the popup window is closed while its startRecordingWithStream request is in
\* service; the background keeps serving the request
PopupCloseDuringStart ==
  /\ popup.open /\ popup.pc = "withStreamSent" /\ popup.chk = "idle"
  /\ srs.pc # "idle" /\ srsPrev.pc = "idle"
  /\ srsPrev' = srs
  /\ srs' = SrsIdle
  /\ popup' = PopupClosed
  /\ UNCHANGED << bgVars, storage, workerVars, wChan, pChan, cap, stop, gs, nextSess, tc, hist >>

\* lines 217-259 : the getRecordingState response arrives
checkRecordingStateReply ==
  /\ popup.chk = "sent" /\ gs.pc = "replied"
  /\ IF gs.capturing
       THEN /\ popup' = [popup EXCEPT !.chk = "idle", !.isRecording = TRUE]
            /\ storage' = IF storage.recordingStartTime # NoStamp
                            THEN storage
                            ELSE [storage EXCEPT !.recordingStartTime = PopupStamp]
            /\ UNCHANGED cap
       ELSE /\ popup' = [popup EXCEPT !.chk = "idle"]
            /\ storage' = StorageRemove(storage, MetaKeys)
            /\ cap' = IF cap.pc = "resolved" THEN [cap EXCEPT !.clobbered = TRUE] ELSE cap
  /\ gs' = GsIdle
  /\ UNCHANGED << bgVars, workerVars, wChan, pChan, srs, stop, otherVars, hist >>

\* lines 265-283 : startRecording() up to the clearRecording message
startRecordingClick ==
  /\ popup.open /\ ~popup.isRecording /\ popup.pc = "idle" /\ popup.stp = "idle"
  /\ nextSess < MaxSessions
  /\ nextSess' = nextSess + 1
  /\ popup' = [popup EXCEPT !.pc = "clearSent", !.sess = nextSess + 1, !.streamTab = 0]
  /\ hist' = [hist EXCEPT !.whileActive = (offscreen /\ worker.state = "recording")]
  /\ UNCHANGED << bgVars, storage, workerVars, wChan, pChan, opVars, srsPrev, tc >>

\* background.ts:141-195 : the clearRecording handler runs and answers
clearRecording ==
  /\ popup.pc = "clearSent"
  /\ ClearRecordingEffect
  /\ popup' = [popup EXCEPT !.pc = "cleared"]
  /\ hist' = [hist EXCEPT !.crashBuf = << >>, !.evictBuf = << >>, !.phase = Phase("cleared")]
  /\ UNCHANGED << wChan, pChan, opVars, otherVars >>

\* lines 288-307 : storage.remove, tabs.query, then the startCapture message
sendStartCapture ==
  /\ popup.pc = "cleared" /\ cap.pc = "idle"
  /\ storage' = StorageRemove(storage, AllRecordingKeys)
  /\ \E tab \in Tabs : RecvStartCapture(popup.sess, tab)
  /\ popup' = [popup EXCEPT !.pc = "captureSent"]
  /\ UNCHANGED << bgVars, workerVars, wChan, pChan, srs, stop, gs, otherVars, hist >>

\* lines 309-325 : the startCapture response arrives
startCaptureResponse ==
  /\ popup.pc = "captureSent" /\ cap.pc = "replied"
  /\ IF cap.reply = "ok" /\ cap.streamId # NoToken
       THEN /\ srs' = [SrsIdle EXCEPT !.pc = "getContexts", !.streamId = cap.streamId,
                                      !.sess = popup.sess]
            /\ popup' = [popup EXCEPT !.pc = "withStreamSent"]
       ELSE /\ popup' = [popup EXCEPT !.pc = "idle"]     \* throw
            /\ UNCHANGED srs
  /\ cap' = CapIdle
  /\ hist' = [hist EXCEPT !.call = NoCall]
  /\ UNCHANGED << bgVars, storage, workerVars, wChan, pChan, stop, gs, otherVars >>

\* lines 327-347 : startRecordingWithStream succeeded
withStreamSuccess ==
  /\ popup.pc = "withStreamSent" /\ srs.pc = "replied" /\ srs.reply = "ok"
  /\ popup' = [popup EXCEPT !.pc = "idle", !.streamTab = 0, !.isRecording = TRUE]
  /\ storage' = [storage EXCEPT !.recordingStartTime = PopupStamp]
  /\ srs' = SrsIdle
  /\ UNCHANGED << bgVars, workerVars, wChan, pChan, cap, stop, gs, otherVars, hist >>

\* lines 348-413 : startRecordingWithStream failed, the popup records locally
withStreamFallback ==
  /\ popup.pc = "withStreamSent" /\ srs.pc = "replied" /\ srs.reply = "fail"
  /\ \E ok \in BOOLEAN :
       IF ok /\ srs.streamId.tab \notin LiveTabs
         THEN /\ popup' = [popup EXCEPT !.pc = "idle", !.streamTab = srs.streamId.tab,
                                        !.recorder = "recording", !.n = 0,
                                        !.isRecording = TRUE]
              /\ storage' = [storage EXCEPT !.recordingStartTime = PopupStamp]
         ELSE /\ popup' = [popup EXCEPT !.pc = "idle"]   \* throw localError
              /\ UNCHANGED storage
  /\ srs' = SrsIdle
  /\ UNCHANGED << bgVars, workerVars, wChan, pChan, cap, stop, gs, otherVars, hist >>

\* lines 375-385 : the popup's fallback recorder delivers a timeslice
popupData ==
  /\ popup.recorder = "recording" /\ popup.n < MaxFrags
  /\ popup' = [popup EXCEPT !.n = @ + 1]
  /\ pChan' = Append(pChan, Frag("p", popup.sess, popup.n + 1, FALSE))
  /\ UNCHANGED << bgVars, storage, workerVars, wChan, opVars, otherVars, hist >>

\* lines 420-439 : stopRecording() up to the stopCapture message
stopRecordingClick ==
  /\ popup.open /\ popup.isRecording /\ popup.pc = "idle" /\ popup.stp = "idle"
  /\ stop.pc = "idle"
  /\ IF popup.recorder = "recording"
       THEN \E nonEmpty \in BOOLEAN :
              /\ popup' = [popup EXCEPT !.stp = "sent", !.recorder = "null",
                                        !.n = IF nonEmpty THEN @ + 1 ELSE @]
              /\ pChan' = IF nonEmpty
                            THEN Append(pChan, Frag("p", popup.sess, popup.n + 1, TRUE))
                            ELSE pChan
       ELSE /\ popup' = [popup EXCEPT !.stp = "sent"]
            /\ UNCHANGED pChan
  /\ stop' = [StopIdle EXCEPT !.pc = "getContexts"]
  /\ UNCHANGED << bgVars, storage, workerVars, wChan, cap, srs, gs, otherVars, hist >>

\* lines 441-529 : the stopCapture response arrives
stopCaptureResponse ==
  /\ popup.stp = "sent" /\ stop.pc = "replied"
  /\ LET fromStorage == storage.hasChunks /\ Len(storage.recordingChunks) > 0
         st == IF fromStorage THEN StorageRemove(storage, {"recordingChunks"}) ELSE storage IN
       /\ storage' = StorageRemove(st, MetaKeys)
       /\ popup' = [popup EXCEPT !.stp = "idle", !.isRecording = FALSE, !.streamTab = 0,
                                 !.n = 0]
  /\ stop' = StopIdle
  /\ hist' = [hist EXCEPT !.crashBuf = << >>, !.evictBuf = << >>, !.emitted = {}]
  /\ UNCHANGED << bgVars, workerVars, wChan, pChan, cap, srs, gs, otherVars >>

\* ======================================================================
\* Host platform events
\* ======================================================================
\* the offscreen document crashes or is closed externally
WorkerCrash ==
  /\ offscreen /\ hist.faults < MaxFaults
  /\ hist' = [hist EXCEPT !.faults = @ + 1, !.phase = Phase("crashed"), !.crashBuf =
                IF isRecording /\ worker.state = "recording" /\ Len(recordingChunks) > 0
                  THEN recordingChunks ELSE @]
  /\ offscreen' = FALSE
  /\ worker' = NoWorker
  /\ wSer' = {}
  /\ UNCHANGED << bgVars, storage, wChan, pChan, opVars, popup, otherVars >>

\* the service worker is evicted while idle and started again: module state
\* is re-initialised (background.ts:3-8, 289)
CoordinatorRestart ==
  /\ cap.pc = "idle" /\ srs.pc = "idle" /\ srsPrev.pc = "idle"
  /\ stop.pc = "idle" /\ gs.pc = "idle"
  /\ hist.faults < MaxFaults
  /\ hist' = [hist EXCEPT !.faults = @ + 1, !.evictBuf =
                IF offscreen /\ worker.state = "recording" /\ Len(recordingChunks) > 0
                  THEN recordingChunks ELSE @]
  /\ isRecording' = FALSE
  /\ recordingChunks' = << >>
  /\ creatingOffscreenDocument' = "null"
  /\ UNCHANGED << storage, workerVars, wChan, pChan, opVars, popup, otherVars >>

\* background.ts:524-532 : the browser is started again; every context is new,
\* chrome.storage.local survives, the onStartup listener restores the chunks
onStartup ==
  /\ nextSess > 0 /\ hist.faults < MaxFaults
  /\ isRecording' = FALSE
  /\ recordingChunks' = IF storage.hasChunks THEN storage.recordingChunks ELSE << >>
  /\ creatingOffscreenDocument' = "null"
  /\ offscreen' = FALSE /\ worker' = NoWorker /\ wSer' = {}
  /\ wChan' = << >> /\ pChan' = << >>
  /\ cap' = CapIdle /\ srs' = SrsIdle /\ srsPrev' = SrsIdle /\ stop' = StopIdle /\ gs' = GsIdle
  /\ popup' = PopupClosed
  /\ hist' = [HistInit EXCEPT !.faults = hist.faults + 1]
  /\ UNCHANGED << storage, nextSess, tc >>

\* ======================================================================
\* Transcoder (src/src/popup/utils/samIntegration.ts)
\* A sample is the rational  n / den ; a buffer keeps one denominator for all
\* of its samples, so every operation below is exact integer arithmetic.
\* ======================================================================
\* Math.round(n / d) for d > 0 : the nearest integer, halves towards +infinity
MathRound(n, d) == (2 * n + d) \div (2 * d)

\* Math.floor(n / d) for d > 0
MathFloor(n, d) == n \div d

Abs(n) == IF n < 0 THEN -n ELSE n
Min(a, b) == IF a < b THEN a ELSE b
Max(a, b) == IF a > b THEN a ELSE b

\* AudioBuffer.numberOfChannels, AudioBuffer.length
NumberOfChannels(b) == Len(b.channels)
BufLength(b) == IF b.channels = << >> THEN 0 ELSE Len(b.channels[1])

\* the value of two samples of two buffers is the same rational
SameValue(n1, d1, n2, d2) == n1 * d2 = n2 * d1

\* two buffers hold the same audio: rate, channel count, length, every value
SameAudio(a, b) ==
  /\ a.sampleRate = b.sampleRate
  /\ NumberOfChannels(a) = NumberOfChannels(b)
  /\ BufLength(a) = BufLength(b)
  /\ \A c \in 1..NumberOfChannels(a) : \A i \in 1..BufLength(a) :
       SameValue(a.channels[c][i], a.den, b.channels[c][i], b.den)

\* sample values of the payloads fed to the transcoder, over the denominator
\* of the target peak: -1, 0, 1/2 and 0.95
SampleDen == TargetPeakDen
SampleNums == {-SampleDen, 0, SampleDen \div 2, TargetPeakNum}
Rates == 1..MaxRate
ChannelCounts == {1, 2}

SeqsOfLen(S, n) == [1..n -> S]

Payloads ==
  { [sampleRate |-> r, den |-> SampleDen, channels |-> chs] :
      r \in Rates,
      chs \in UNION { SeqsOfLen(SeqsOfLen(SampleNums, n), c) :
                        n \in 1..MaxLen, c \in ChannelCounts } }

\* BaseAudioContext.createBuffer throws NotSupportedError for a length of zero
ErrCreateBuffer == "NotSupportedError"
Returned(b) == [kind |-> "same", buf |-> b]
Created(b) == [kind |-> "buffer", buf |-> b]
Thrown(e) == [kind |-> "error", error |-> e]
IsBuffer(r) == r.kind \in {"same", "buffer"}

\* ---------------------------------------------------------------- resample
\* lines 282-283 : ratio = sourceSampleRate / targetSampleRate,
\*                 newLength = Math.round(length / ratio)
NewLength_Ceil(length, sourceSampleRate, targetSampleRate) ==
  -((-(length * targetSampleRate)) \div sourceSampleRate)
NewLength_Floor(length, sourceSampleRate, targetSampleRate) ==
  MathFloor(length * targetSampleRate, sourceSampleRate)
NewLength(length, sourceSampleRate, targetSampleRate) ==
  MathRound(length * targetSampleRate, sourceSampleRate)

\* lines 297-306 : one output sample, over the denominator den * targetSampleRate
\*   sourceIndex = i * ratio, index = floor(sourceIndex), fraction = the rest
ResampleSample(src, i, sourceSampleRate, targetSampleRate) ==
  LET index == MathFloor(i * sourceSampleRate, targetSampleRate)
      fracNum == (i * sourceSampleRate) % targetSampleRate
  IN  IF index + 1 < Len(src)
        THEN src[index + 1] * (targetSampleRate - fracNum) + src[index + 2] * fracNum
        ELSE src[Min(index, Len(src) - 1) + 1] * targetSampleRate

\* lines 297-306 : the source indices (0-based) the loop reads for output i
ResampleReadsAt(length, i, sourceSampleRate, targetSampleRate) ==
  LET index == MathFloor(i * sourceSampleRate, targetSampleRate)
  IN  IF index + 1 < length THEN {index, index + 1} ELSE {Min(index, length - 1)}

ResampleReads(b, targetSampleRate) ==
  IF b.sampleRate = targetSampleRate
    THEN {}
    ELSE UNION { ResampleReadsAt(BufLength(b), i, b.sampleRate, targetSampleRate) :
                   i \in 0..(NewLength(BufLength(b), b.sampleRate, targetSampleRate) - 1) }

\* lines 273-312
ResampleAudioBuffer(b, targetSampleRate) ==
  IF b.sampleRate = targetSampleRate
    THEN Returned(b)
    ELSE LET newLength == NewLength(BufLength(b), b.sampleRate, targetSampleRate)
         IN  IF newLength = 0
               THEN Thrown(ErrCreateBuffer)
               ELSE Created(
                 [ sampleRate |-> targetSampleRate,
                   den |-> b.den * targetSampleRate,
                   channels |->
                     [ c \in 1..NumberOfChannels(b) |->
                         [ k \in 1..newLength |->
                             ResampleSample(b.channels[c], k - 1, b.sampleRate,
                                            targetSampleRate) ] ] ])

\* a payload is resampled to a target rate
resampleAudioBuffer ==
  /\ tc.op = "loaded"
  /\ \E targetSampleRate \in Rates :
       tc' = [tc EXCEPT !.op = "resample",
                        !.arg = [NoArg EXCEPT !.rate = targetSampleRate],
                        !.out = ResampleAudioBuffer(tc.in, targetSampleRate),
                        !.reads = ResampleReads(tc.in, targetSampleRate)]
  /\ UNCHANGED << bgVars, storage, workerVars, wChan, pChan, opVars, popup, nextSess,
                  srsPrev, hist >>

\* the result is resampled back to the rate of the original payload
resampleBack ==
  /\ tc.op = "resample" /\ IsBuffer(tc.out)
  /\ tc' = [tc EXCEPT !.op = "resampleBack",
                      !.out2 = ResampleAudioBuffer(tc.out.buf, tc.in.sampleRate)]
  /\ UNCHANGED << bgVars, storage, workerVars, wChan, pChan, opVars, popup, nextSess,
                  srsPrev, hist >>

\* ------------------------------------------------------------ channel remix
\* lines 334-340 : (left[i] + right[i]) / 2, over the denominator 2 * den
StereoToMono_Sum(left, right) ==
  [ i \in 1..Len(left) |-> 2 * (left[i] + right[i]) ]
StereoToMono(left, right) ==
  [ i \in 1..Len(left) |-> left[i] + right[i] ]

\* lines 317-354
ConvertChannels(b, targetChannels) ==
  IF NumberOfChannels(b) = targetChannels
    THEN Returned(b)
    ELSE IF NumberOfChannels(b) = 2 /\ targetChannels = 1
      THEN Created([ sampleRate |-> b.sampleRate, den |-> 2 * b.den,
                     channels |-> << StereoToMono(b.channels[1], b.channels[2]) >> ])
    ELSE IF NumberOfChannels(b) = 1 /\ targetChannels = 2
      THEN Created([ sampleRate |-> b.sampleRate, den |-> b.den,
                     channels |-> << b.channels[1], b.channels[1] >> ])
    ELSE Created([ sampleRate |-> b.sampleRate, den |-> b.den,
                   channels |-> [ c \in 1..targetChannels |->
                                    [ i \in 1..BufLength(b) |-> 0 ] ] ])

\* a payload is remixed to a target channel count
convertChannels ==
  /\ tc.op = "loaded"
  /\ \E targetChannels \in ChannelCounts :
       tc' = [tc EXCEPT !.op = "convert",
                        !.arg = [NoArg EXCEPT !.channels = targetChannels],
                        !.out = ConvertChannels(tc.in, targetChannels)]
  /\ UNCHANGED << bgVars, storage, workerVars, wChan, pChan, opVars, popup, nextSess,
                  srsPrev, hist >>

\* the result is remixed back to the channel count of the original payload
convertChannelsBack ==
  /\ tc.op = "convert"
  /\ tc' = [tc EXCEPT !.op = "convertBack",
                      !.out2 = ConvertChannels(tc.out.buf, NumberOfChannels(tc.in))]
  /\ UNCHANGED << bgVars, storage, workerVars, wChan, pChan, opVars, popup, nextSess,
                  srsPrev, hist >>

\* ---------------------------------------------------------------- normalize
\* lines 365-375 : maxPeak, the largest |sample| of all channels (its numerator)
MaxPeak(b) ==
  LET mags == {0} \cup { Abs(b.channels[c][i]) :
                           c \in 1..NumberOfChannels(b), i \in 1..BufLength(b) }
  IN  CHOOSE m \in mags : \A x \in mags : x <= m

\* line 383 : gain = targetPeak / maxPeak, as the fraction num / den
NormalizeGain_TargetPeak(b) ==
  [ num |-> TargetPeakNum, den |-> TargetPeakDen ]
NormalizeGain(b) ==
  [ num |-> TargetPeakNum * b.den, den |-> TargetPeakDen * MaxPeak(b) ]

\* lines 359-402
NormalizeAudioBuffer(b) ==
  IF MaxPeak(b) = 0 \/ MaxPeak(b) * TargetPeakDen = TargetPeakNum * b.den
    THEN Returned(b)
    ELSE LET gain == NormalizeGain(b)
         IN  Created([ sampleRate |-> b.sampleRate,
                       den |-> b.den * gain.den,
                       channels |->
                         [ c \in 1..NumberOfChannels(b) |->
                             [ i \in 1..BufLength(b) |-> b.channels[c][i] * gain.num ] ] ])

\* a payload is normalized to the default target peak
normalizeAudioBuffer ==
  /\ tc.op = "loaded"
  /\ tc' = [tc EXCEPT !.op = "normalize", !.out = NormalizeAudioBuffer(tc.in)]
  /\ UNCHANGED << bgVars, storage, workerVars, wChan, pChan, opVars, popup, nextSess,
                  srsPrev, hist >>

\* -------------------------------------------------------------- WAV encoder
BitDepths == {8, 16, 24, 32}
ErrBitDepth == "Unsupported bit depth"

\* Math.max(-1, Math.min(1, s)) on the numerator of s = n / den
ClampUnit(n, den) == Max(-den, Min(den, n))

\* a sample value n / den in lowest terms (the same number)
RECURSIVE GCD(_, _)
GCD(a, b) == IF b = 0 THEN a ELSE GCD(b, a % b)
LowestNum(n, den) == n \div GCD(den, Abs(n))
LowestDen(n, den) == den \div GCD(den, Abs(n))

\* the 32-bit scale factors, most significant byte first
X7FFF == << 0, 0, 127, 255 >>
X8000 == << 0, 0, 128, 0 >>
X7FFFFF == << 0, 127, 255, 255 >>
X800000 == << 0, 128, 0, 0 >>
X7FFFFFFF == << 127, 255, 255, 255 >>
X80000000 == << 128, 0, 0, 0 >>

\* floor((a * K + c) / d) for a >= 0 and the factor K given by its four bytes:
\* long division byte by byte, the result in two 16-bit limbs (hi, lo)
ScaledFloor(a, d, k, c) ==
  LET t3 == a * k[1]
      t2 == 256 * (t3 % d) + a * k[2]
      t1 == 256 * (t2 % d) + a * k[3]
      t0 == 256 * (t1 % d) + a * k[4] + c
      low == 256 * (t1 \div d) + (t0 \div d)
  IN  [ hi |-> 256 * (t3 \div d) + (t2 \div d) + (low \div 65536), lo |-> low % 65536 ]

\* the two's complement of a 32-bit magnitude
Negate32(m) ==
  IF m.lo = 0 THEN [ hi |-> (65536 - m.hi) % 65536, lo |-> 0 ]
              ELSE [ hi |-> 65535 - m.hi, lo |-> 65536 - m.lo ]

\* little-endian bytes of the low 16, 24 and 32 bits
BytesLow16(m) == << m.lo % 256, m.lo \div 256 >>
BytesLow24(m) == << m.lo % 256, m.lo \div 256, m.hi % 256 >>
BytesLE32(m) == << m.lo % 256, m.lo \div 256, m.hi % 256, m.hi \div 256 >>

\* lines 424-455 : the bytes written for one sample
\*   16 : pcm[i] = s < 0 ? s * 0x8000 : s * 0x7FFF           (Int16Array, truncated)
\*   24 : Math.round(s < 0 ? s * 0x800000 : s * 0x7FFFFF)    (three bytes)
\*   32 : pcm[i] = s < 0 ? s * 0x80000000 : s * 0x7FFFFFFF   (Int32Array, truncated)
PcmSample(n, den, bitDepth) ==
  LET d == LowestDen(n, den)
      s == ClampUnit(LowestNum(n, den), d)
  IN  IF bitDepth = 16
        THEN IF s < 0 THEN BytesLow16(Negate32(ScaledFloor(-s, d, X8000, 0)))
                      ELSE BytesLow16(ScaledFloor(s, d, X7FFF, 0))
      ELSE IF bitDepth = 24
        THEN IF s < 0 THEN BytesLow24(Negate32(ScaledFloor(-2 * s, 2 * d, X800000, d - 1)))
                      ELSE BytesLow24(ScaledFloor(2 * s, 2 * d, X7FFFFF, d))
      ELSE IF s < 0 THEN BytesLE32(Negate32(ScaledFloor(-s, d, X80000000, 0)))
                    ELSE BytesLE32(ScaledFloor(s, d, X7FFFFFFF, 0))

\* lines 424, 433, 446 : bytesPerSample
BytesPerSample_Two(bitDepth) == 2
BytesPerSample(bitDepth) ==
  IF bitDepth = 16 THEN 2 ELSE IF bitDepth = 24 THEN 3 ELSE 4

\* lines 412-418 : interleaved[i * numberOfChannels + channel]
Interleaved(b) ==
  [ k \in 1..(BufLength(b) * NumberOfChannels(b)) |->
      b.channels[((k - 1) % NumberOfChannels(b)) + 1][((k - 1) \div NumberOfChannels(b)) + 1] ]

RECURSIVE FlattenBytes(_)
FlattenBytes(ss) == IF ss = << >> THEN << >> ELSE Head(ss) \o FlattenBytes(Tail(ss))

\* lines 420-455 : pcmData
PcmData(b, bitDepth) ==
  LET interleaved == Interleaved(b)
  IN  FlattenBytes([ k \in 1..Len(interleaved) |->
                       PcmSample(interleaved[k], b.den, bitDepth) ])

\* DataView.setUint16 keeps the low 16 bits
Uint16(x) == x % 65536

\* lines 457-487 : the 44-byte header and the file
WavFile(b, bitDepth, pcmData) ==
  LET dataSize == Len(pcmData)
      bytesPerSample == BytesPerSample(bitDepth)
  IN  [ byteLength    |-> 44 + dataSize,
        riffSize      |-> 36 + dataSize,
        fmtSize       |-> 16,
        audioFormat   |-> 1,
        numChannels   |-> Uint16(NumberOfChannels(b)),
        sampleRate    |-> b.sampleRate,
        byteRate      |-> b.sampleRate * NumberOfChannels(b) * bytesPerSample,
        blockAlign    |-> Uint16(NumberOfChannels(b) * bytesPerSample),
        bitsPerSample |-> Uint16(bitDepth),
        dataSize      |-> dataSize,
        pcm           |-> pcmData ]

\* lines 407-488
AudioBufferToWav(b, bitDepth) ==
  IF bitDepth \in {16, 24, 32}
    THEN [ kind |-> "wav", buf |-> b, wav |-> WavFile(b, bitDepth, PcmData(b, bitDepth)) ]
    ELSE Thrown(ErrBitDepth)

\* a payload is encoded as WAV
audioBufferToWav ==
  /\ tc.op = "loaded"
  /\ \E bitDepth \in BitDepths :
       tc' = [tc EXCEPT !.op = "wav",
                        !.arg = [NoArg EXCEPT !.bitDepth = bitDepth],
                        !.out = AudioBufferToWav(tc.in, bitDepth)]
  /\ UNCHANGED << bgVars, storage, workerVars, wChan, pChan, opVars, popup, nextSess,
                  srsPrev, hist >>

\* --------------------------------------------------------------------- crop
\* start and end times in half seconds
Times == { [num |-> k, den |-> 2] : k \in 0..MaxTime }

\* lines 530-531 : Math.floor(time * sampleRate)
TimeToSample_Round(time, sampleRate) == MathRound(time.num * sampleRate, time.den)
TimeToSample(time, sampleRate) == MathFloor(time.num * sampleRate, time.den)

\* lines 538-554 : the new buffer; samples past the end of the source stay zero
CropBuffer(b, startSample, newLength) ==
  [ sampleRate |-> b.sampleRate, den |-> b.den,
    channels |->
      [ c \in 1..NumberOfChannels(b) |->
          [ j \in 1..newLength |->
              IF startSample + (j - 1) < Len(b.channels[c])
                THEN b.channels[c][startSample + j]
                ELSE 0 ] ] ]

\* lines 519-557 (the payload is the decoded audioBuffer)
CropAudioBlob_NoStartCheck(b, startTime, endTime, bitDepth) ==
  LET startSample == TimeToSample(startTime, b.sampleRate)
      endSample == TimeToSample(endTime, b.sampleRate)
      newLength == Max(0, endSample - startSample)
  IN  IF newLength = 0
        THEN Returned(b)
        ELSE AudioBufferToWav(CropBuffer(b, startSample, newLength), bitDepth)
CropAudioBlob(b, startTime, endTime, bitDepth) ==
  LET startSample == TimeToSample(startTime, b.sampleRate)
      endSample == TimeToSample(endTime, b.sampleRate)
      newLength == Max(0, endSample - startSample)
  IN  IF newLength = 0 \/ startSample >= BufLength(b)
        THEN Returned(b)
        ELSE AudioBufferToWav(CropBuffer(b, startSample, newLength), bitDepth)

\* a payload is cropped to a time range
cropAudioBlob ==
  /\ tc.op = "loaded"
  /\ \E startTime \in Times, endTime \in Times, bitDepth \in BitDepths :
       tc' = [tc EXCEPT !.op = "crop",
                        !.arg = [NoArg EXCEPT !.startTime = startTime,
                                              !.endTime = endTime,
                                              !.bitDepth = bitDepth],
                        !.out = CropAudioBlob(tc.in, startTime, endTime, bitDepth)]
  /\ UNCHANGED << bgVars, storage, workerVars, wChan, pChan, opVars, popup, nextSess,
                  srsPrev, hist >>

\* -------------------------------------------------------------- MP3 encoder
\* lines 645-646 : Math.max(-32768, Math.min(32767, x * 32768)) stored in an
\* Int16Array
Mp3Sample(n, den) ==
  LET d == LowestDen(n, den)
      x == LowestNum(n, den)
  IN  IF x < 0 THEN -Min(32768, ScaledFloor(-x, d, X8000, 0).lo)
               ELSE Min(32767, ScaledFloor(x, d, X8000, 0).lo)

\* lines 655-662 : the lengths of the blocks handed to encodeBuffer
Mp3Blocks(length) ==
  [ k \in 1..((length + sampleBlockSize - 1) \div sampleBlockSize) |->
      Min(sampleBlockSize, length - (k - 1) * sampleBlockSize) ]

\* lines 629-680 : the input of the lamejs encoder (its output bytes are the
\* library's)
ConvertToMp3(b) ==
  LET leftChannel == b.channels[1]
      rightChannel == IF NumberOfChannels(b) > 1 THEN b.channels[2] ELSE leftChannel
  IN  [ kind |-> "mp3", buf |-> b,
        left |-> [ i \in 1..BufLength(b) |-> Mp3Sample(leftChannel[i], b.den) ],
        right |-> [ i \in 1..BufLength(b) |-> Mp3Sample(rightChannel[i], b.den) ],
        blocks |-> Mp3Blocks(BufLength(b)) ]

\* a payload is encoded as MP3
convertToMp3 ==
  /\ tc.op = "loaded"
  /\ tc' = [tc EXCEPT !.op = "mp3", !.out = ConvertToMp3(tc.in)]
  /\ UNCHANGED << bgVars, storage, workerVars, wChan, pChan, opVars, popup, nextSess,
                  srsPrev, hist >>

\* ------------------------------------------------------- convertAudioFormat
\* target formats: the three encoders, the recorder's own container, and one
\* the converter does not know
Formats == {"wav", "mp3", "ogg", "webm", "flac"}

\* lines 685-741 : the OGG encoder is the platform's MediaRecorder, which
\* throws when it does not support the mime type
ErrMimeType == "NotSupportedError"
ConvertToOgg(b, supported) ==
  IF supported THEN [ kind |-> "ogg", buf |-> b ] ELSE Thrown(ErrMimeType)

\* line 573 (an undefined rate or channel count is 0)
NeedsConversion(b, req) ==
  \/ req.format \in {"wav", "mp3", "ogg"}
  \/ req.rate # 0
  \/ req.channels # 0
  \/ req.normalize

\* lines 596-610
Encode_RejectUnknown(b, req) ==
  IF req.format = "wav" THEN AudioBufferToWav(b, req.bitDepth)
  ELSE IF req.format = "mp3" THEN ConvertToMp3(b)
  ELSE IF req.format = "ogg" THEN ConvertToOgg(b, req.oggSupported)
  ELSE Thrown("Unsupported container")
Encode(b, req) ==
  IF req.format = "wav" THEN AudioBufferToWav(b, req.bitDepth)
  ELSE IF req.format = "mp3" THEN ConvertToMp3(b)
  ELSE IF req.format = "ogg" THEN ConvertToOgg(b, req.oggSupported)
  ELSE AudioBufferToWav(b, req.bitDepth)

\* lines 562-624 : the result and the stages run, in the order they ran
ConvertAudioFormat(b, req) ==
  IF ~NeedsConversion(b, req)
    THEN [ out |-> Returned(b), stages |-> << >> ]
    ELSE
      LET doResample == req.rate # 0 /\ b.sampleRate # req.rate
          r1 == IF doResample THEN ResampleAudioBuffer(b, req.rate) ELSE Returned(b)
      IN  IF r1.kind = "error"
            THEN [ out |-> r1, stages |-> << "decode", "resample" >> ]
            ELSE
              LET doRemix == req.channels # 0 /\ NumberOfChannels(r1.buf) # req.channels
                  r2 == IF doRemix THEN ConvertChannels(r1.buf, req.channels)
                                   ELSE Returned(r1.buf)
                  r3 == IF req.normalize THEN NormalizeAudioBuffer(r2.buf)
                                         ELSE Returned(r2.buf)
              IN  [ out |-> Encode(r3.buf, req),
                    stages |-> << "decode" >>
                                 \o (IF doResample THEN << "resample" >> ELSE << >>)
                                 \o (IF doRemix THEN << "remix" >> ELSE << >>)
                                 \o (IF req.normalize THEN << "normalize" >> ELSE << >>)
                                 \o << "encode" >> ]

\* the requests made by the popup (four arguments, lines 1113 of
\* useAudioRecorder.ts) and requests that set bitDepth and normalize
ConvertRequests(b) ==
  { [NoArg EXCEPT !.format = f, !.rate = r, !.channels = c, !.bitDepth = 16,
                  !.oggSupported = o] :
      f \in Formats, r \in {0, b.sampleRate, MaxRate}, c \in {0} \cup ChannelCounts,
      o \in BOOLEAN }
  \cup
  { [NoArg EXCEPT !.format = f, !.bitDepth = d, !.normalize = n] :
      f \in Formats \ {"ogg"}, d \in BitDepths, n \in BOOLEAN }

\* a payload is converted to a target format
convertAudioFormat ==
  /\ tc.op = "loaded"
  /\ \E req \in ConvertRequests(tc.in) :
       /\ (req.format # "ogg") => req.oggSupported
       /\ LET done == ConvertAudioFormat(tc.in, req)
          IN  tc' = [tc EXCEPT !.op = "convertFormat", !.arg = req,
                               !.out = done.out, !.stages = done.stages]
  /\ UNCHANGED << bgVars, storage, workerVars, wChan, pChan, opVars, popup, nextSess,
                  srsPrev, hist >>

\* ----------------------------------------------------------- handleDownload
\* decodeAudioData of a 16-bit PCM WAV file: each sample is int16 / 32768
DecodeWav16(wav) ==
  [ sampleRate |-> wav.sampleRate, den |-> 32768,
    channels |->
      [ c \in 1..wav.numChannels |->
          [ i \in 1..(wav.dataSize \div wav.blockAlign) |->
              LET k == (i - 1) * wav.numChannels + c
                  v == wav.pcm[2 * k - 1] + 256 * wav.pcm[2 * k]
              IN  IF v >= 32768 THEN v - 65536 ELSE v ] ] ]

\* useAudioRecorder.ts:1085-1120 : the crop, when a trim range is set, then the
\* conversion of its result; duration is that of the recorded payload
HandleDownload(b, trimStart, trimEnd, req) ==
  LET duration == [ num |-> BufLength(b), den |-> b.sampleRate ]
      doCrop == \/ trimStart.num > 0
                \/ (trimEnd.num > 0 /\ trimEnd.num * duration.den < duration.num * trimEnd.den)
      cropped == IF doCrop
                   THEN CropAudioBlob(b, trimStart,
                                      IF trimEnd.num # 0 THEN trimEnd ELSE duration, 16)
                   ELSE Returned(b)
      blobToProcess == IF cropped.kind = "wav" THEN DecodeWav16(cropped.wav) ELSE b
      done == ConvertAudioFormat(blobToProcess, req)
  IN  [ out |-> done.out,
        stages |-> (IF ~doCrop THEN << >>
                    ELSE IF cropped.kind = "wav" THEN << "decode", "crop", "encode" >>
                    ELSE << "decode" >>)
                   \o done.stages ]

\* the popup's requests: format, preferred rate and channel mode, default
\* bit depth and no normalize
DownloadRequests ==
  { [NoArg EXCEPT !.format = f, !.rate = r, !.channels = c, !.bitDepth = 16] :
      f \in {"wav", "webm"}, r \in {0, MaxRate}, c \in {0, 1} }

handleDownload ==
  /\ tc.op = "loaded"
  /\ \E trimStart \in Times, trimEnd \in Times, req \in DownloadRequests :
       LET done == HandleDownload(tc.in, trimStart, trimEnd, req)
       IN  tc' = [tc EXCEPT !.op = "download",
                            !.arg = [req EXCEPT !.startTime = trimStart,
                                                !.endTime = trimEnd],
                            !.out = done.out, !.stages = done.stages]
  /\ UNCHANGED << bgVars, storage, workerVars, wChan, pChan, opVars, popup, nextSess,
                  srsPrev, hist >>

\* ======================================================================
\* Specification
\* ======================================================================
Next ==
  \/ PopupOpen \/ PopupClose
  \/ checkRecordingStateReply
  \/ startRecordingClick \/ clearRecording \/ sendStartCapture
  \/ captureTabAudio \/ retryCapture \/ startCaptureReply \/ startCaptureResponse
  \/ setupOffscreenDocument \/ createDocument \/ sendStartRecording \/ startRecording
  \/ startRecordingFromStreamId \/ withStreamSuccess \/ withStreamFallback
  \/ WorkerData \/ WorkerSend \/ WorkerFinal \/ popupData
  \/ addRecordingChunk \/ addRecordingChunkPopup
  \/ stopRecordingClick \/ handleStopCapture \/ stopRecording \/ stopSettled
  \/ stopPersist \/ stopCaptureResponse
  \/ getRecordingStateContexts \/ getRecordingState
  \/ WorkerCrash \/ CoordinatorRestart \/ onStartup

Spec == Init /\ [][Next]_vars

\* Stream acquisition alone: the popup's start flow up to the startCapture
\* response, with the concurrent state check of a freshly opened popup
NextAcq ==
  \/ PopupOpen \/ PopupClose
  \/ checkRecordingStateReply
  \/ startRecordingClick \/ clearRecording \/ sendStartCapture
  \/ captureTabAudio \/ retryCapture \/ startCaptureReply \/ startCaptureResponse
  \/ getRecordingStateContexts \/ getRecordingState

SpecAcq == Init /\ [][NextAcq]_vars

\* Session life cycle without fragment traffic
NextState ==
  \/ PopupOpen \/ PopupClose
  \/ checkRecordingStateReply
  \/ startRecordingClick \/ clearRecording \/ sendStartCapture
  \/ captureTabAudio \/ retryCapture \/ startCaptureReply \/ startCaptureResponse
  \/ setupOffscreenDocument \/ createDocument \/ sendStartRecording \/ startRecording
  \/ startRecordingFromStreamId \/ withStreamSuccess \/ withStreamFallback
  \/ stopRecordingClick \/ handleStopCapture \/ stopRecording \/ stopSettled
  \/ stopCaptureResponse
  \/ getRecordingStateContexts \/ getRecordingState
  \/ WorkerCrash \/ CoordinatorRestart \/ onStartup

SpecState == Init /\ [][NextState]_vars

\* Captures made by the offscreen recorder for a popup that stays open
NextCapture ==
  \/ PopupOpen
  \/ checkRecordingStateReply
  \/ startRecordingClick \/ clearRecording \/ sendStartCapture
  \/ captureTabAudio \/ retryCapture \/ startCaptureReply \/ startCaptureResponse
  \/ setupOffscreenDocument \/ createDocument \/ sendStartRecording \/ startRecording
  \/ startRecordingFromStreamId \/ withStreamSuccess
  \/ WorkerData \/ WorkerSend \/ WorkerFinal
  \/ addRecordingChunk
  \/ stopRecordingClick \/ handleStopCapture \/ stopRecording \/ stopSettled
  \/ stopPersist \/ stopCaptureResponse
  \/ getRecordingStateContexts \/ getRecordingState
  \/ WorkerCrash \/ CoordinatorRestart

SpecCapture == Init /\ [][NextCapture]_vars

\* every step of a handler, once enabled, is eventually taken: callbacks are
\* called and timers fire
HandlerFairness ==
  /\ WF_vars(clearRecording)
  /\ WF_vars(captureTabAudio) /\ WF_vars(retryCapture) /\ WF_vars(startCaptureReply)
  /\ WF_vars(setupOffscreenDocument) /\ WF_vars(createDocument)
  /\ WF_vars(sendStartRecording) /\ WF_vars(startRecording)
  /\ WF_vars(startRecordingFromStreamId)
  /\ WF_vars(handleStopCapture) /\ WF_vars(stopRecording) /\ WF_vars(stopSettled)
  /\ WF_vars(stopPersist)
  /\ WF_vars(getRecordingStateContexts) /\ WF_vars(getRecordingState)
  /\ WF_vars(addRecordingChunk)

SpecCaptureLive == SpecCapture /\ HandlerFairness

\* The same captures for a popup that may be closed and opened again
NextSession ==
  \/ PopupOpen \/ PopupClose
  \/ checkRecordingStateReply
  \/ startRecordingClick \/ clearRecording \/ sendStartCapture
  \/ captureTabAudio \/ retryCapture \/ startCaptureReply \/ startCaptureResponse
  \/ setupOffscreenDocument \/ createDocument \/ sendStartRecording \/ startRecording
  \/ startRecordingFromStreamId \/ withStreamSuccess
  \/ WorkerData \/ WorkerSend \/ WorkerFinal
  \/ addRecordingChunk
  \/ stopRecordingClick \/ handleStopCapture \/ stopRecording \/ stopSettled
  \/ stopPersist \/ stopCaptureResponse
  \/ getRecordingStateContexts \/ getRecordingState
  \/ WorkerCrash \/ CoordinatorRestart

SpecSession == Init /\ [][NextSession]_vars

\* Session life cycle with two startRecordingWithStream requests in service
NextSetup ==
  \/ PopupOpen \/ PopupClose \/ PopupCloseDuringStart
  \/ checkRecordingStateReply
  \/ startRecordingClick \/ clearRecording \/ sendStartCapture
  \/ captureTabAudio \/ retryCapture \/ startCaptureReply \/ startCaptureResponse
  \/ setupOffscreenDocument \/ createDocument \/ awaitCreating
  \/ sendStartRecording \/ startRecording
  \/ startRecordingFromStreamId \/ withStreamSuccess \/ withStreamFallback
  \/ setupOffscreenDocumentPrev \/ createDocumentPrev \/ awaitCreatingPrev
  \/ sendStartRecordingPrev \/ startRecordingPrev
  \/ startRecordingFromStreamIdPrev \/ dropResponsePrev
  \/ stopRecordingClick \/ handleStopCapture \/ stopRecording \/ stopSettled
  \/ stopCaptureResponse
  \/ getRecordingStateContexts \/ getRecordingState
  \/ WorkerCrash \/ CoordinatorRestart

SpecSetup == Init /\ [][NextSetup]_vars

\* The transcoder alone: a decoded payload is loaded and one operation is
\* applied to it, then, for the two invertible conversions, its inverse
InitTranscode ==
  /\ isRecording = FALSE
  /\ recordingChunks = << >>
  /\ creatingOffscreenDocument = "null"
  /\ storage = EmptyStorage
  /\ offscreen = FALSE
  /\ worker = NoWorker
  /\ wSer = {}
  /\ wChan = << >>
  /\ pChan = << >>
  /\ cap = CapIdle
  /\ srs = SrsIdle
  /\ srsPrev = SrsIdle
  /\ stop = StopIdle
  /\ gs = GsIdle
  /\ popup = PopupClosed
  /\ nextSess = 0
  /\ hist = HistInit
  /\ \E b \in Payloads : tc = [TcIdle EXCEPT !.op = "loaded", !.in = b]

NextTranscode ==
  \/ resampleAudioBuffer \/ resampleBack
  \/ convertChannels \/ convertChannelsBack
  \/ normalizeAudioBuffer
  \/ cropAudioBlob \/ audioBufferToWav

SpecTranscode == InitTranscode /\ [][NextTranscode]_vars

\* The export paths: the encoders and the conversion entry points
NextExport ==
  \/ audioBufferToWav \/ convertToMp3
  \/ convertAudioFormat

SpecExport == InitTranscode /\ [][NextExport]_vars

\* The download of a recording from the popup
NextDownload ==
  \/ handleDownload

SpecDownload == InitTranscode /\ [][NextDownload]_vars

\* ======================================================================
\* Properties
\* ======================================================================
\* the transient condition named by the platform: "stream already active"
TransientOutcome(o) == o.kind = "err" /\ o.msg = ErrActiveStream

\* C1: whenever the platform capture primitive is called for a start that
\* was issued while the Worker was capturing, the previous session has been
\* torn down: no offscreen document exists, the Worker holds no live stream
\* and the chunk buffer is empty.
C1_TornDownBeforeAcquire ==
  (hist.call.made /\ hist.call.whileActive) =>
    (~hist.call.offscreen /\ ~hist.call.live /\ ~hist.call.buffered)

\* C2: the chunk sequence that stopCapture persists holds fragments of one
\* session only, never a merge of two sessions' fragments.
C2_NoMergedSessions ==
  (stop.pc = "replied" /\ stop.wrote) =>
    \A i, j \in DOMAIN storage.recordingChunks :
      storage.recordingChunks[i].sess = storage.recordingChunks[j].sess

\* C3: once stopCapture has replied, the final fragment the Worker emitted
\* while finalizing is part of the persisted chunk sequence.
C3_FinalFragmentPersisted ==
  stop.pc = "replied" =>
    \A f \in hist.emitted :
      f.final => (storage.hasChunks /\ f \in Range(storage.recordingChunks))

\* C4: if the Worker disappeared during Capturing after fragments were
\* appended, the stopCapture that follows persists those fragments.
C4_CrashFlush ==
  (stop.pc = "replied" /\ hist.crashBuf # << >>) =>
    (storage.hasChunks /\ Range(hist.crashBuf) \subseteq Range(storage.recordingChunks))

\* C5: if the Coordinator was evicted and restarted during Capturing, the
\* payload stopCapture persists still holds the fragments appended before.
C5_EvictionKeepsFragments ==
  (stop.pc = "replied" /\ hist.evictBuf # << >>) =>
    (storage.hasChunks /\ Range(hist.evictBuf) \subseteq Range(storage.recordingChunks))

\* C6 (as stated): getState reports capturing exactly when at least one of
\* the three signals (flag, offscreen document, durable start time) is set.
C6_AnyOfThreeSignals ==
  gs.pc = "replied" =>
    (gs.capturing <=> (gs.hasOffscreen \/ gs.flag \/ gs.hasStart))

\* C6 (amended): getState reports capturing exactly when an offscreen
\* document exists, or the in-memory flag and the durable start time are
\* both set; the flag alone or the start time alone does not suffice.
C6_OffscreenOrFlagAndStart ==
  gs.pc = "replied" =>
    (gs.capturing <=> (gs.hasOffscreen \/ (gs.flag /\ gs.hasStart)))

C6_Witness ==
  /\ gs.pc = "replied" /\ ~gs.capturing
  /\ ~gs.hasOffscreen /\ (gs.flag \/ gs.hasStart)

\* C7: when the platform fails with the transient error exactly twice and
\* then succeeds, startCapture is still pending after the second failure
\* and replies success after exactly three platform calls, carrying the
\* token issued by the third call (as long as no other context removed the
\* stored token before the reply was built).
C7_SucceedsOnThirdCall ==
  (Len(cap.outcomes) >= 2 /\ TransientOutcome(cap.outcomes[1])
                          /\ TransientOutcome(cap.outcomes[2])) =>
    /\ Len(cap.outcomes) = 2 => (cap.pc = "retryWait" /\ cap.reply = "none")
    /\ (Len(cap.outcomes) >= 3 /\ cap.outcomes[3].kind = "ok") =>
         /\ cap.calls = 3
         /\ cap.pc \in {"resolved", "replied"}
         /\ cap.issued = IssuedToken(cap.sess, cap.tab)
         /\ cap.pc = "replied" =>
              /\ cap.reply = "ok" /\ cap.error = ""
              /\ ~cap.clobbered => cap.streamId = cap.issued

C7_Witness ==
  /\ cap.pc = "replied" /\ cap.reply = "ok" /\ cap.calls = 3
  /\ TransientOutcome(cap.outcomes[1]) /\ TransientOutcome(cap.outcomes[2])
  /\ cap.streamId = cap.issued /\ cap.issued # NoToken

\* C8: when every platform call fails with the transient error, startCapture
\* makes the initial call and exactly maxRetries retries, then replies failure.
C8_ExactlyMaxRetries ==
  (\A i \in DOMAIN cap.outcomes : TransientOutcome(cap.outcomes[i])) =>
    /\ cap.calls <= 1 + maxRetries
    /\ cap.pc = "replied" => (cap.reply = "fail" /\ cap.calls = 1 + maxRetries)

\* C9: a platform error other than the transient one ends the acquisition at
\* once, on the first call or on a retry: it is the last platform call and
\* startCapture replies failure with that error.
C9_OtherErrorTerminal ==
  \A i \in DOMAIN cap.outcomes :
    (cap.outcomes[i].kind = "err" /\ ~TransientOutcome(cap.outcomes[i])) =>
      /\ i = Len(cap.outcomes) /\ cap.calls = i
      /\ cap.pc = "replied" /\ cap.reply = "fail" /\ cap.error = cap.outcomes[i].msg

C9_Witness ==
  /\ cap.pc = "replied" /\ cap.reply = "fail" /\ Len(cap.outcomes) >= 2
  /\ cap.outcomes[Len(cap.outcomes)].kind = "err"
  /\ ~TransientOutcome(cap.outcomes[Len(cap.outcomes)])

\* C10: a step that handles an addRecordingChunk message appends its
\* fragment at the end of the in-memory buffer and changes nothing else of
\* the session: durable storage, the flag, the Worker and every request in
\* service stay as they were.
C10_AppendOnly ==
  [][ (wChan # << >> /\ wChan' = Tail(wChan)) =>
        /\ recordingChunks' = Append(recordingChunks, Head(wChan))
        /\ storage' = storage
        /\ isRecording' = isRecording
        /\ creatingOffscreenDocument' = creatingOffscreenDocument
        /\ UNCHANGED << offscreen, worker, cap, srs, stop, gs >> ]_vars

C10_Witness ==
  /\ isRecording /\ offscreen /\ worker.state = "recording"
  /\ Len(recordingChunks) > 0
  /\ ~storage.hasChunks

\* C11: when stopCapture replies for a session that was Capturing, the reply
\* step has written the chunk buffer to durable storage, exactly once, and
\* the written value is the whole buffer in append order (also when empty).
C11_PersistedOnceWhole ==
  [][ (stop.pc # "replied" /\ stop'.pc = "replied" /\ stop.capturing) =>
        /\ stop'.wrote
        /\ storage'.hasChunks
        /\ storage'.recordingChunks = recordingChunks ]_vars

\* C12: the Worker's fragments sit in the Coordinator's chunk buffer in the
\* order in which the encoder emitted them: of two fragments of one capture,
\* the one emitted earlier comes first.
C12_AppendedInEmissionOrder ==
  \A i, j \in DOMAIN recordingChunks :
    ( /\ i < j
      /\ recordingChunks[i].src = "w" /\ recordingChunks[j].src = "w"
      /\ recordingChunks[i].sess = recordingChunks[j].sess ) =>
      recordingChunks[i].k < recordingChunks[j].k

\* C13: a stopCapture that finds no Worker context (and no recorder) replies
\* with the non-error empty result in that very step and leaves the chunk
\* buffer, the in-memory flag and durable storage as they were.
C13_StopWithoutSession ==
  [][ (stop.pc = "getContexts" /\ ~offscreen /\ mediaRecorder = "null"
         /\ stop'.pc # "getContexts" /\ stop'.pc # "idle") =>
        /\ stop'.pc = "replied" /\ stop'.reply = "null"
        /\ UNCHANGED << recordingChunks, isRecording, storage >> ]_vars

C13_Witness ==
  /\ stop.pc = "replied" /\ stop.reply = "null" /\ ~stop.capturing /\ ~stop.wrote
  /\ ~offscreen /\ isRecording /\ Len(recordingChunks) > 0

\* C14: the step in which stopCapture replies for a Capturing session leaves
\* the session Idle (no offscreen document, empty chunk buffer, flag false,
\* durable start time / stream id / tab id removed), and every getState
\* issued after that reply, before another start, reports capturing = false.
C14_IdleAfterStop ==
  /\ [][ (stop.pc # "replied" /\ stop'.pc = "replied" /\ stop.capturing) =>
            /\ ~offscreen' /\ worker' = NoWorker
            /\ recordingChunks' = << >>
            /\ ~isRecording'
            /\ storage'.recordingStartTime = NoStamp
            /\ storage'.recordingStreamId = NoToken
            /\ storage'.recordingTabId = 0 ]_vars
  /\ [](( gs.pc = "replied" /\ gs.phase.name = "stopped" /\ hist.phase = gs.phase ) =>
            ~gs.capturing)

C14_Witness ==
  /\ gs.pc = "replied" /\ gs.phase.name = "stopped" /\ hist.phase = gs.phase
  /\ ~gs.capturing /\ ~offscreen /\ ~isRecording

\* C15: createDocument is called only when no offscreen document exists and
\* no creation is in flight; at most one creation is in flight over all
\* interleaved requests and none while a document exists; a request that
\* finds a document running creates nothing.
C15_SingleWorkerCreation ==
  /\ []( (srs.pc = "creating" \/ srsPrev.pc = "creating") =>
            (~offscreen /\ creatingOffscreenDocument = "pending") )
  /\ []( ~(srs.pc = "creating" /\ srsPrev.pc = "creating") )
  /\ [][ (creatingOffscreenDocument' = "pending" /\ creatingOffscreenDocument # "pending") =>
            (~offscreen /\ creatingOffscreenDocument = "null") ]_vars
  /\ [][ ( offscreen /\
            \/ (srs.pc = "getContexts" /\ srs'.pc \notin {"getContexts", "idle"})
            \/ (srsPrev.pc = "getContexts" /\ srsPrev'.pc \notin {"getContexts", "idle"}) ) =>
            /\ UNCHANGED << offscreen, worker, creatingOffscreenDocument >>
            /\ srs'.pc # "creating" /\ srsPrev'.pc # "creating" ]_vars

C15_Witness ==
  /\ srs.pc = "creating" /\ srsPrev.pc = "awaitCreating"
  /\ ~offscreen /\ creatingOffscreenDocument = "pending"

\* errors startRecordingWithStream reports when the Worker did not begin capture
WorkerStartErrors ==
  { "getUserMedia failed", "Called startRecording while already recording",
    "Could not establish connection" }

\* C16: when startRecordingWithStream replies with a failure of the Worker to
\* begin capture, the session is Idle: the flag is false, no start time is
\* persisted and no offscreen document is left.
C16_WorkerStartFailureLeavesIdle ==
  (srs.pc = "replied" /\ srs.reply = "fail" /\ srs.error \in WorkerStartErrors) =>
    (~isRecording /\ storage.recordingStartTime = NoStamp /\ ~offscreen)

C18_ClearTearsDown ==
  [][ (popup.pc = "clearSent" /\ popup'.pc = "cleared") =>
        /\ ~offscreen' /\ ~worker'.live
        /\ recordingChunks' = << >>
        /\ ~isRecording'
        /\ storage' = EmptyStorage ]_vars

\* C19: the live stream of a session is held by the Worker only: the
\* background holds no stream, and while an offscreen document exists the
\* popup holds no live stream obtained from the session's stream id.
C19_StreamHeldByWorkerOnly ==
  /\ currentStream = "null"
  /\ offscreen => popup.streamTab = 0

\* C20: while a session is Capturing, no step modifies the durable start
\* time that was set when the session became Capturing.
C20_StartTimeNotModified ==
  [][ (hist.phase.name = "capturing" /\ hist'.phase = hist.phase) =>
        storage'.recordingStartTime = storage.recordingStartTime ]_vars

\* C21: a chunk message handled while no session is active (flag false, no
\* offscreen document) leaves the chunk buffer unchanged.
C21_NoAppendInIdle ==
  [][ ( ~isRecording /\ ~offscreen /\
        \/ (wChan # << >> /\ wChan' = Tail(wChan))
        \/ (pChan # << >> /\ pChan' = Tail(pChan)) ) =>
        recordingChunks' = recordingChunks ]_vars

\* C22: the offscreen recorder retains at most one fragment in its own
\* memory (recordedChunks) at every point of a capture.
C22_WorkerRetainsAtMostOne ==
  worker.recordedChunks <= 1

\* C23: every request the background starts serving is eventually answered:
\* startCapture, startRecordingWithStream, stopCapture, getRecordingState and
\* clearRecording each reach their reply.
C23_EveryRequestReplied ==
  /\ (cap.pc = "wait300") ~> (cap.pc = "replied")
  /\ (srs.pc = "getContexts") ~> (srs.pc = "replied")
  /\ (stop.pc = "getContexts") ~> (stop.pc = "replied")
  /\ (gs.pc = "contexts") ~> (gs.pc = "replied")
  /\ (popup.pc = "clearSent") ~> (popup.pc = "cleared")

\* C24: resampling to a different rate yields round(length * targetRate /
\* sourceRate) samples per channel; output i is the linear interpolation of
\* source samples floor(i*ratio) and floor(i*ratio)+1 weighted by the
\* fractional part of i*ratio, and is the final source sample whenever
\* floor(i*ratio)+1 >= length; no source index outside [0, length-1] is read.
\* (A payload is produced exactly when that length is at least one.)
C24_ResampleInterpolates ==
  (tc.op = "resample" /\ tc.arg.rate # tc.in.sampleRate) =>
    LET s == tc.in.sampleRate
        t == tc.arg.rate
        L == BufLength(tc.in)
    IN  /\ tc.reads \subseteq 0..(L - 1)
        /\ (tc.out.kind = "error") <=> (2 * L * t < s)
        /\ tc.out.kind # "error" =>
             LET o == tc.out.buf
                 n == BufLength(o)
             IN  /\ tc.out.kind = "buffer"
                 /\ o.sampleRate = t
                 /\ NumberOfChannels(o) = NumberOfChannels(tc.in)
                 /\ 2 * n * s - s <= 2 * L * t /\ 2 * L * t < 2 * n * s + s
                 /\ \A c \in 1..NumberOfChannels(o) : Len(o.channels[c]) = n
                 /\ \A c \in 1..NumberOfChannels(o) : \A i \in 0..(n - 1) :
                      LET q == (i * s) \div t
                          r == (i * s) % t
                          src == tc.in.channels[c]
                      IN  IF q + 1 >= L
                            THEN SameValue(o.channels[c][i + 1], o.den, src[L], tc.in.den)
                            ELSE o.channels[c][i + 1] * tc.in.den * t
                                   = o.den * (src[q + 1] * (t - r) + src[q + 2] * r)

\* an interpolated sample strictly between two different source samples, and a
\* clamped last sample, in the same result
C24_Witness ==
  /\ tc.op = "resample" /\ tc.out.kind = "buffer"
  /\ tc.in.sampleRate = 2 /\ tc.arg.rate = 3 /\ BufLength(tc.in) = 2
  /\ tc.in.channels[1] = << 10, -20 >>
  /\ BufLength(tc.out.buf) = 3
  /\ SameValue(tc.out.buf.channels[1][2], tc.out.buf.den, -10, SampleDen)
  /\ SameValue(tc.out.buf.channels[1][3], tc.out.buf.den, -20, SampleDen)
  /\ tc.reads = {0, 1}

\* C25 (as stated): resampling to targetRate and back to sourceRate yields a
\* payload whose length differs from the original by at most one sample.
C25_RoundTripWithinOne ==
  (tc.op = "resampleBack" /\ IsBuffer(tc.out2)) =>
    Abs(BufLength(tc.out2.buf) - BufLength(tc.in)) <= 1

\* C25 (amended): whenever resampling to targetRate produces a payload,
\* resampling back to sourceRate produces a payload at sourceRate whose length
\* differs from the original by at most floor(sourceRate / (2 * targetRate)
\* + 1/2) samples: at most one sample whenever sourceRate < 3 * targetRate.
C25_RoundTripWithinHalfRatio ==
  (tc.op = "resampleBack") =>
    LET s == tc.in.sampleRate
        t == tc.arg.rate
    IN  /\ IsBuffer(tc.out2)
        /\ tc.out2.buf.sampleRate = s
        /\ Abs(BufLength(tc.out2.buf) - BufLength(tc.in)) <= (s + t) \div (2 * t)
        /\ s < 3 * t => Abs(BufLength(tc.out2.buf) - BufLength(tc.in)) <= 1

\* two samples at rate 4 become one sample at rate 1 and four samples at rate 4
C25_Witness ==
  /\ tc.op = "resampleBack" /\ tc.out2.kind = "buffer"
  /\ tc.in.sampleRate = 4 /\ tc.arg.rate = 1
  /\ BufLength(tc.in) = 2 /\ BufLength(tc.out.buf) = 1 /\ BufLength(tc.out2.buf) = 4

\* C26: stereo to mono sets each output sample to the average of the two input
\* channels' samples, mono to stereo copies the single channel into both
\* outputs, and mono to stereo to mono returns exactly the original mono
\* samples (same length, same values) for every mono payload.
C26_RemixRoundTrip ==
  /\ (tc.op = "convert" /\ NumberOfChannels(tc.in) = 2 /\ tc.arg.channels = 1) =>
       /\ tc.out.kind = "buffer"
       /\ NumberOfChannels(tc.out.buf) = 1
       /\ BufLength(tc.out.buf) = BufLength(tc.in)
       /\ tc.out.buf.sampleRate = tc.in.sampleRate
       /\ \A i \in 1..BufLength(tc.in) :
            2 * tc.in.den * tc.out.buf.channels[1][i]
              = tc.out.buf.den * (tc.in.channels[1][i] + tc.in.channels[2][i])
  /\ (tc.op = "convert" /\ NumberOfChannels(tc.in) = 1 /\ tc.arg.channels = 2) =>
       /\ tc.out.kind = "buffer"
       /\ NumberOfChannels(tc.out.buf) = 2
       /\ tc.out.buf.sampleRate = tc.in.sampleRate
       /\ \A c \in 1..2 :
            /\ Len(tc.out.buf.channels[c]) = BufLength(tc.in)
            /\ \A i \in 1..BufLength(tc.in) :
                 SameValue(tc.out.buf.channels[c][i], tc.out.buf.den,
                           tc.in.channels[1][i], tc.in.den)
  /\ (tc.op = "convertBack" /\ NumberOfChannels(tc.in) = 1 /\ tc.arg.channels = 2) =>
       /\ tc.out2.kind = "buffer"
       /\ SameAudio(tc.out2.buf, tc.in)

\* a mono payload with two different non-zero samples went to stereo and back
C26_Witness ==
  /\ tc.op = "convertBack" /\ tc.arg.channels = 2
  /\ tc.in.channels = << << TargetPeakNum, -SampleDen >> >>
  /\ NumberOfChannels(tc.out.buf) = 2
  /\ tc.out2.kind = "buffer" /\ NumberOfChannels(tc.out2.buf) = 1

\* C27: normalize scans all channels for the peak; if the peak is 0 or equals
\* the target ceiling 0.95 the payload is returned unchanged; otherwise every
\* sample of every channel is multiplied by targetCeiling / peak, so the new
\* peak equals the ceiling and length, channel count and rate are unchanged.
C27_NormalizeToCeiling ==
  (tc.op = "normalize") =>
    LET b == tc.in
        peak == MaxPeak(b)
    IN  /\ \A c \in 1..NumberOfChannels(b) : \A i \in 1..BufLength(b) :
             Abs(b.channels[c][i]) <= peak
        /\ IF peak = 0 \/ peak * TargetPeakDen = TargetPeakNum * b.den
             THEN tc.out.kind = "same" /\ tc.out.buf = b
             ELSE LET o == tc.out.buf
                  IN  /\ tc.out.kind = "buffer"
                      /\ o.sampleRate = b.sampleRate
                      /\ NumberOfChannels(o) = NumberOfChannels(b)
                      /\ \A c \in 1..NumberOfChannels(o) :
                           /\ Len(o.channels[c]) = BufLength(b)
                           /\ \A i \in 1..BufLength(b) :
                                o.channels[c][i] * TargetPeakDen * peak
                                  = o.den * b.channels[c][i] * TargetPeakNum
                      /\ MaxPeak(o) * TargetPeakDen = TargetPeakNum * o.den

\* a stereo payload with peak 1/2 in its second channel was scaled up
C27_Witness ==
  /\ tc.op = "normalize" /\ tc.out.kind = "buffer"
  /\ tc.in.channels = << << 0, 0 >>, << SampleDen \div 2, 0 >> >>
  /\ SameValue(tc.out.buf.channels[2][1], tc.out.buf.den, TargetPeakNum, TargetPeakDen)

C29_CropLenient ==
  (tc.op = "crop") =>
    LET st == tc.arg.startTime
        et == tc.arg.endTime
        a == (st.num * tc.in.sampleRate) \div st.den
        e == (et.num * tc.in.sampleRate) \div et.den
        L == BufLength(tc.in)
    IN  ( \/ e <= a
          \/ a >= L
          \/ et.num * st.den <= st.num * et.den
          \/ st.num * tc.in.sampleRate >= L * st.den ) =>
          /\ tc.out.kind = "same"
          /\ tc.out.buf = tc.in

\* a crop that starts after the end of the payload, with a bit depth the
\* encoder would refuse
C29_Witness ==
  /\ tc.op = "crop" /\ tc.out.kind = "same"
  /\ tc.arg.bitDepth = 8
  /\ tc.arg.startTime.num < tc.arg.endTime.num
  /\ tc.arg.startTime.num * tc.in.sampleRate >= BufLength(tc.in) * tc.arg.startTime.den

\* C30: for every payload and every supported bit depth (16, 24, 32) the WAV
\* header is consistent with the data written: the data-length field equals the
\* number of PCM bytes written (length * channels * bitDepth / 8), the RIFF size
\* is 36 + that length, byte rate = sampleRate * channels * bytesPerSample,
\* block align = channels * bytesPerSample, and the bit-depth field equals the
\* requested depth.
C30_WavHeaderConsistent ==
  (tc.op = "wav" /\ tc.arg.bitDepth \in {16, 24, 32}) =>
    LET w == tc.out.wav
        C == NumberOfChannels(tc.in)
        bps == tc.arg.bitDepth \div 8
    IN  /\ tc.out.kind = "wav"
        /\ w.dataSize = Len(w.pcm)
        /\ Len(w.pcm) = BufLength(tc.in) * C * bps
        /\ w.byteLength = 44 + Len(w.pcm)
        /\ w.riffSize = 36 + Len(w.pcm)
        /\ w.numChannels = C
        /\ w.sampleRate = tc.in.sampleRate
        /\ w.byteRate = tc.in.sampleRate * C * bps
        /\ w.blockAlign = C * bps
        /\ w.bitsPerSample = tc.arg.bitDepth
        /\ \A k \in 1..Len(w.pcm) : w.pcm[k] \in 0..255

\* a stereo payload of two frames encoded with three bytes per sample
C30_Witness ==
  /\ tc.op = "wav" /\ tc.out.kind = "wav"
  /\ tc.arg.bitDepth = 24
  /\ NumberOfChannels(tc.in) = 2 /\ BufLength(tc.in) = 2
  /\ tc.out.wav.dataSize = 12 /\ tc.out.wav.blockAlign = 6
  /\ tc.in.channels[2][1] = -SampleDen
  /\ SubSeq(tc.out.wav.pcm, 4, 6) = << 0, 0, 128 >>

\* the signed 16-bit integer stored at sample k of 16-bit PCM data
Int16At(pcm, k) ==
  LET v == pcm[2 * k - 1] + 256 * pcm[2 * k]
  IN  IF v >= 32768 THEN v - 65536 ELSE v

\* s < 0 ? s * 32768 : s * 32767 for the sample n / den clamped to [-1, 1]
Asymmetric16(n, den) ==
  LET s == Max(-den, Min(den, n))
  IN  IF s < 0 THEN -((-s * 32768) \div den) ELSE (s * 32767) \div den

\* C31: every 16-bit PCM quantization, the WAV 16-bit path and the MP3 path,
\* maps a sample s clamped to [-1, 1] with the asymmetric rule
\* s < 0 ? s * 32768 : s * 32767, so the result lies in [-32768, 32767] and
\* +1.0 maps to 32767.
C31_AsymmetricQuantization ==
  /\ (tc.op = "wav" /\ tc.arg.bitDepth = 16) =>
       /\ tc.out.kind = "wav"
       /\ \A k \in 1..(BufLength(tc.in) * NumberOfChannels(tc.in)) :
            /\ Int16At(tc.out.wav.pcm, k) = Asymmetric16(Interleaved(tc.in)[k], tc.in.den)
            /\ Int16At(tc.out.wav.pcm, k) \in -32768..32767
            /\ Interleaved(tc.in)[k] = tc.in.den => Int16At(tc.out.wav.pcm, k) = 32767
  /\ (tc.op = "mp3") =>
       /\ \A i \in 1..BufLength(tc.in) :
            /\ tc.out.left[i] = Asymmetric16(tc.in.channels[1][i], tc.in.den)
            /\ tc.out.left[i] \in -32768..32767
            /\ tc.in.channels[1][i] = tc.in.den => tc.out.left[i] = 32767
       /\ \A i \in 1..BufLength(tc.in) :
            tc.out.right[i] = Asymmetric16(tc.in.channels[NumberOfChannels(tc.in)][i],
                                           tc.in.den)

\* C32: with a passthrough target container (webm), convert returns the source
\* bytes unchanged whenever no stage actually alters the payload (a requested
\* rate or channel count equal to the source's, a normalize that is a no-op),
\* and returns a WAV encoding only when resample, remix or normalize actually
\* changed the payload.
C32_PassthroughUnlessAltered ==
  (tc.op = "convertFormat" /\ tc.arg.format = "webm"
     /\ tc.arg.bitDepth \in {16, 24, 32}) =>
    LET b == tc.in
        altered ==
          \/ (tc.arg.rate # 0 /\ tc.arg.rate # b.sampleRate)
          \/ (tc.arg.channels # 0 /\ tc.arg.channels # NumberOfChannels(b))
          \/ (tc.arg.normalize /\ MaxPeak(b) # 0
                /\ MaxPeak(b) * TargetPeakDen # TargetPeakNum * b.den)
    IN  /\ ~altered => (tc.out.kind = "same" /\ tc.out.buf = b)
        /\ tc.out.kind = "wav" => altered

\* C33 (as stated): an invalid conversion request is rejected with a terminal
\* error: a bitDepth outside {16, 24, 32} yields UnsupportedBitDepth and a
\* targetContainer outside the supported set yields UnsupportedContainer; in
\* neither case is an output payload produced.
C33_InvalidRequestRejected ==
  /\ (tc.op \in {"convertFormat", "wav"} /\ tc.arg.bitDepth \notin {16, 24, 32}) =>
       (tc.out.kind = "error" /\ tc.out.error = ErrBitDepth)
  /\ (tc.op = "convertFormat" /\ tc.arg.format \notin {"wav", "mp3", "ogg", "webm"}) =>
       tc.out.kind = "error"

\* C33 (amended): a bitDepth outside {16, 24, 32} is rejected with a terminal
\* error (Unsupported bit depth), and no output payload is produced, whenever
\* the request reaches the WAV encoder: the encoder called directly, target
\* wav, or a conversion with a target other than mp3 and ogg.  A target
\* container outside the supported set is not rejected: the request yields a
\* WAV encoding when a sample rate, a channel count or normalize is given, and
\* the source bytes otherwise.
C33_BitDepthRejectedUnknownFallsBack ==
  /\ (tc.op = "wav" /\ tc.arg.bitDepth \notin {16, 24, 32}) =>
       (tc.out.kind = "error" /\ tc.out.error = ErrBitDepth)
  /\ (tc.op = "convertFormat") =>
       LET req == tc.arg
           given == req.rate # 0 \/ req.channels # 0 \/ req.normalize
           wavPath == req.format = "wav" \/ (given /\ req.format \notin {"mp3", "ogg"})
           tooShort == /\ req.rate # 0 /\ req.rate # tc.in.sampleRate
                       /\ 2 * BufLength(tc.in) * req.rate < tc.in.sampleRate
       IN  /\ (wavPath /\ req.bitDepth \notin {16, 24, 32}) =>
                /\ tc.out.kind = "error"
                /\ ~tooShort => tc.out.error = ErrBitDepth
           /\ (req.format \notin {"wav", "mp3", "ogg", "webm"}) =>
                IF given
                  THEN /\ tc.out.kind \in {"wav", "error"}
                       /\ tc.out.kind = "error" =>
                            (tooShort \/ req.bitDepth \notin {16, 24, 32})
                  ELSE tc.out.kind = "same" /\ tc.out.buf = tc.in

\* a request for an unknown container with a different rate was served as WAV
C33_Witness ==
  /\ tc.op = "convertFormat" /\ tc.arg.format = "flac"
  /\ tc.arg.rate # 0 /\ tc.arg.rate # tc.in.sampleRate
  /\ tc.out.kind = "wav"
  /\ tc.stages = << "decode", "resample", "encode" >>

\* position of a stage in the pipeline decode, resample, remix, normalize,
\* crop, encode
StageRank(stage) ==
  CASE stage = "decode" -> 1
    [] stage = "resample" -> 2
    [] stage = "remix" -> 3
    [] stage = "normalize" -> 4
    [] stage = "crop" -> 5
    [] stage = "encode" -> 6

\* C34: the stages requested for one export are always applied in the order
\* decode, resample, channel remix, normalize, crop, encode: crop is applied
\* after resample / remix / normalize and before the final encode.
C34_StagesInPipelineOrder ==
  (tc.op = "download") =>
    \A i \in 1..Len(tc.stages) : \A j \in 1..Len(tc.stages) :
      i < j => StageRank(tc.stages[i]) < StageRank(tc.stages[j])

\* C35: acquisition retries use a strictly growing delay: the k-th retry of
\* getMediaStreamId is scheduled retryDelay * k = 800 * k ms after the
\* preceding failure, following the fixed 300 ms settling delay before the
\* initial attempt, and the retry counter increases by exactly one per
\* transient failure.
C35_RetryDelayGrows ==
  /\ [](cap.pc = "wait300" => (cap.delay = 300 /\ cap.calls = 0))
  /\ [](cap.pc = "retryWait" =>
          /\ cap.delay = 800 * cap.calls
          /\ cap.retryCount = cap.calls - 1
          /\ \A i \in 1..Len(cap.outcomes) : TransientOutcome(cap.outcomes[i]))
  /\ [][ (cap.pc = "retryWait" /\ cap'.pc = "retryWait" /\ cap'.calls # cap.calls) =>
           /\ TransientOutcome(cap'.outcomes[Len(cap'.outcomes)])
           /\ cap'.calls = cap.calls + 1
           /\ cap'.retryCount = cap.retryCount + 1
           /\ cap'.delay = cap.delay + 800
           /\ cap'.delay > cap.delay ]_vars

\* the third retry is armed with 2400 ms
C35_Witness ==
  /\ cap.pc = "retryWait" /\ cap.calls = 3 /\ cap.retryCount = 2 /\ cap.delay = 2400

\* C36: whenever startCapture replies success, the stream token in the reply is
\* the token the platform issued for that same request's acquisition: never
\* another request's token, a stale token or an undefined token, although the
\* token is passed through the shared durable key recordingStreamId.
C36_ReplyCarriesOwnToken ==
  (cap.pc = "replied" /\ cap.reply = "ok") =>
    /\ cap.streamId # NoToken
    /\ cap.streamId = cap.issued
    /\ cap.streamId = IssuedToken(cap.sess, cap.tab)


\* C37: a failed Worker creation does not wedge the Coordinator: whenever the
\* in-flight createDocument settles, by resolving or by rejecting, the marker
\* creatingOffscreenDocument is reset to null, so that the next request that
\* finds no document starts a creation of its own.
C37_FailedCreationResetsMarker ==
  [][ (creatingOffscreenDocument = "pending" /\ creatingOffscreenDocument' # "pending")
        => creatingOffscreenDocument' = "null" ]_vars


\* C38: a failed acquisition leaves session state unchanged: no step of
\* captureTabAudio other than the one that stores the issued token writes
\* durable storage, the in-memory flag, the chunk buffer, the creation marker
\* or the Worker, and a request that replied failure has stored no token.
C38_FailedAcquisitionLeavesState ==
  /\ []((cap.pc = "replied" /\ cap.reply = "fail") =>
          /\ cap.issued = NoToken
          /\ cap.streamId = NoToken)
  /\ [][ (cap.pc \in {"wait300", "retryWait"} /\ cap' # cap /\ cap'.pc # "resolved")
          => UNCHANGED << storage, isRecording, recordingChunks,
                          creatingOffscreenDocument, offscreen, worker >> ]_vars

\* a request has replied failure after its retries, next to the Worker an
\* earlier session created, over a storage that holds no token
C38_Witness ==
  /\ cap.pc = "replied" /\ cap.reply = "fail"
  /\ cap.calls = maxRetries + 2
  /\ storage.recordingStreamId = NoToken
  /\ offscreen


\* C39: crop never yields audio beyond the source's end: whenever crop builds
\* a new payload, its length is at most the source length minus the start
\* index and every output sample is a copy of the source sample at start
\* index + j; no zero-filled sample is produced when the end exceeds the
\* payload's duration.
C39_CropWithinSource ==
  (tc.op = "crop" /\ tc.out.kind = "wav") =>
    LET a == TimeToSample(tc.arg.startTime, tc.in.sampleRate)
        L == BufLength(tc.in)
    IN  \A c \in 1..NumberOfChannels(tc.out.buf) :
          /\ Len(tc.out.buf.channels[c]) <= L - a
          /\ \A j \in 0..(Len(tc.out.buf.channels[c]) - 1) :
               /\ a + j < L
               /\ tc.out.buf.channels[c][j + 1] = tc.in.channels[c][a + j + 1]


\* C40: START_RECORDING reaching the Worker while its recorder is recording is
\* answered with the failure 'Called startRecording while already recording'
\* and leaves the running capture untouched: the recorder, its live stream,
\* its emitted fragments and the document are unchanged in the step in which
\* the request (of the open popup, or of a popup closed meanwhile) is answered.
C40_BeginWhileRecordingRejected ==
  [][ /\ (srs.pc = "wait500" /\ srs'.pc # "wait500" /\ srs'.sess = srs.sess
             /\ offscreen /\ worker.state = "recording") =>
           /\ srs' = SrsFail(srs, "Called startRecording while already recording")
           /\ UNCHANGED << offscreen, worker, wSer, wChan >>
      /\ (srsPrev.pc = "wait500" /\ srsPrev'.pc # "wait500" /\ srsPrev'.sess = srsPrev.sess
             /\ offscreen /\ worker.state = "recording") =>
           /\ srsPrev' = SrsFail(srsPrev, "Called startRecording while already recording")
           /\ UNCHANGED << offscreen, worker, wSer, wChan >> ]_vars

\* a second session's begin has been refused while the first session's
\* recorder goes on recording its own tab
C40_Witness ==
  /\ srs.pc = "replied" /\ srs.reply = "fail"
  /\ srs.error = "Called startRecording while already recording"
  /\ offscreen /\ worker.state = "recording" /\ worker.live
  /\ worker.sess # srs.sess

====
